---- MODULE Spec2Model ----
(***************************************************************************)
(* The day-5 Intcode machine of src/src/bin/day05/intcode.rs: a cell array *)
(* of i32, a program counter (usize), a Running/Halted state, and the host *)
(* console (stdin lines read by INPUT, stdout values printed by OUTPUT).   *)
(*                                                                         *)
(* Number representation.  TLC integers are 32 bits wide, so               *)
(*   - an i32 is the integer itself; sums and products are computed        *)
(*     without ever leaving the 32-bit range (AddI32, MulI32);             *)
(*   - a usize is the record [wrapped, n] that stands for the number       *)
(*     n when wrapped = FALSE (n >= 0) and for 2^64 + n when               *)
(*     wrapped = TRUE (n < 0): the only usize values the program ever      *)
(*     holds are small indices and sign-extended negative i32 values.      *)
(* A string is the sequence of its characters.                             *)
(***************************************************************************)
EXTENDS Integers, Sequences, FiniteSets, TLC

VARIABLES program, state, pc, stdin, stdout, result, prev, faulted, steps,
          hostInput, received, loaded, run, calls, jumped, d2, calls2, search

vars == <<program, state, pc, stdin, stdout, result, prev, faulted, steps,
          hostInput, received, loaded, run, calls, jumped, d2, calls2, search>>

(* ---------------------------------------------------------------------- *)
(* Bounds of the model                                                     *)
(* ---------------------------------------------------------------------- *)
MaxLen == 6
MaxInput == 2
MaxSteps == 4

(* ---------------------------------------------------------------------- *)
(* i32 and usize                                                           *)
(* ---------------------------------------------------------------------- *)
MaxI32 == 2147483647
MinI32 == -MaxI32 - 1

\* A cast that takes a negative value to index 0.
AsUsizeClamped(v) == [wrapped |-> FALSE, n |-> IF v < 0 THEN 0 ELSE v]

\* `v as usize` for an i32 v on a 64-bit target: sign extension.
AsUsize(v) == [wrapped |-> v < 0, n |-> v]

\* A usize that is a plain index.
Index(i) == [wrapped |-> FALSE, n |-> i]

\* usize + small constant (pc + 1, pc + 3, pc += offset).
UsizeAdd(u, k) == [wrapped |-> u.wrapped /\ u.n + k < 0, n |-> u.n + k]

\* Vec::get / Vec::get_mut succeed exactly when idx < len.
InBounds(cells, idx) == ~idx.wrapped /\ idx.n < Len(cells)

\* i32 + i32.  overflowChecks is the build's choice (debug: the addition
\* panics; release: it wraps modulo 2^32).  Result: [panic, val].
AddOverflows(a, b) ==
    \/ a > 0 /\ b > MaxI32 - a
    \/ a < 0 /\ b < MinI32 - a

WrappingAdd(a, b) ==
    IF a > 0 /\ b > MaxI32 - a THEN (((a - MaxI32) - 1) + b) - MaxI32 - 1
    ELSE IF a < 0 /\ b < MinI32 - a THEN (((a + MaxI32) + 1) + b) + MaxI32 + 1
    ELSE a + b

AddI32(a, b, overflowChecks) ==
    IF AddOverflows(a, b) /\ overflowChecks
    THEN [panic |-> TRUE, val |-> 0]
    ELSE [panic |-> FALSE, val |-> WrappingAdd(a, b)]

\* i32 * i32, by bytes so that no intermediate value leaves 32 bits.
Byte(a, i) == (a \div (256 ^ i)) % 256

Abs(a) == IF a < 0 THEN -a ELSE a

MulOverflows(a, b) ==
    IF a = 0 \/ b = 0 THEN FALSE
    ELSE IF a = MinI32 THEN b # 1
    ELSE IF b = MinI32 THEN a # 1
    ELSE IF (a > 0) = (b > 0) THEN Abs(a) > MaxI32 \div Abs(b)
    ELSE /\ ~(Abs(a) = 1 \/ Abs(b) = 1)
         /\ Abs(a) > (MaxI32 \div Abs(b)) + (IF (MaxI32 % Abs(b)) + 1 = Abs(b) THEN 1 ELSE 0)

WrappingMul(a, b) ==
    LET c0 == Byte(a, 0) * Byte(b, 0)
        c1 == Byte(a, 0) * Byte(b, 1) + Byte(a, 1) * Byte(b, 0) + (c0 \div 256)
        c2 == Byte(a, 0) * Byte(b, 2) + Byte(a, 1) * Byte(b, 1)
                + Byte(a, 2) * Byte(b, 0) + (c1 \div 256)
        c3 == Byte(a, 0) * Byte(b, 3) + Byte(a, 1) * Byte(b, 2)
                + Byte(a, 2) * Byte(b, 1) + Byte(a, 3) * Byte(b, 0) + (c2 \div 256)
        r3 == c3 % 256
        top == IF r3 >= 128 THEN r3 - 256 ELSE r3
    IN  top * 16777216 + (c2 % 256) * 65536 + (c1 % 256) * 256 + (c0 % 256)

MulI32(a, b, overflowChecks) ==
    IF MulOverflows(a, b) /\ overflowChecks
    THEN [panic |-> TRUE, val |-> 0]
    ELSE [panic |-> FALSE, val |-> IF MulOverflows(a, b) THEN WrappingMul(a, b) ELSE a * b]

(* ---------------------------------------------------------------------- *)
(* Strings: format!("{:05}", opcode) and i32::from_str                     *)
(* ---------------------------------------------------------------------- *)
\* A character is a Rust char: its Unicode scalar value.
DigitChar(n) == 48 + n

DigitChars == <<48, 49, 50, 51, 52, 53, 54, 55, 56, 57>>

PlusSign == 43

MinusSign == 45

LetterX == 120

Tab == 9

LineFeed == 10

VerticalTab == 11

FormFeed == 12

CarriageReturn == 13

Space == 32

NextLine == 133

NoBreakSpace == 160

OghamSpaceMark == 5760

EmSpace == 8195

LineSeparator == 8232

IdeographicSpace == 12288

IsDigit(c) == \E d \in 1..10 : DigitChars[d] = c

DigitValue(c) == (CHOOSE d \in 1..10 : DigitChars[d] = c) - 1

RECURSIVE DecDigits(_)
\* The decimal digits of n >= 0, most significant first.
DecDigits(n) ==
    IF n < 10 THEN <<DigitChars[n + 1]>>
    ELSE Append(DecDigits(n \div 10), DigitChars[(n % 10) + 1])

\* format!("{:05}", n) for n >= 0: zero-padded to AT LEAST five characters.
Format05(n) ==
    LET d == DecDigits(n)
        pad == IF Len(d) >= 5 THEN 0 ELSE 5 - Len(d)
    IN  [i \in 1..(pad + Len(d)) |-> IF i <= pad THEN DigitChar(0) ELSE d[i - pad]]

\* str::split_at(3)
SplitAt3(s) == [modes |-> SubSeq(s, 1, 3), op |-> SubSeq(s, 4, Len(s))]

\* chars().rev().collect()
Reverse(s) == [i \in 1..Len(s) |-> s[Len(s) + 1 - i]]

\* char::is_whitespace, which str::trim strips: the 25 characters with the
\* Unicode property White_Space.
WhiteSpace ==
    (Tab..CarriageReturn)
        \cup {Space, NextLine, NoBreakSpace, OghamSpaceMark}
        \cup (8192..8202)
        \cup {LineSeparator, 8233, 8239, 8287, IdeographicSpace}

IsWhitespace(c) == c \in WhiteSpace

RECURSIVE TrimStart(_)
TrimStart(s) ==
    IF s # <<>> /\ IsWhitespace(Head(s)) THEN TrimStart(Tail(s)) ELSE s

\* str::trim
Trim(s) == Reverse(TrimStart(Reverse(TrimStart(s))))

RECURSIVE DigitsValue(_, _, _)
\* Accumulates the digits of ds onto acc, away from zero for sign = 1 and
\* below zero for sign = -1; fails on a non-digit or when the value leaves i32.
DigitsValue(ds, acc, sign) ==
    IF ds = <<>> THEN [ok |-> TRUE, val |-> acc]
    ELSE IF ~IsDigit(Head(ds)) THEN [ok |-> FALSE, val |-> 0]
    ELSE LET d == DigitValue(Head(ds))
         IN  IF sign = 1
             THEN IF acc > (MaxI32 - d) \div 10
                  THEN [ok |-> FALSE, val |-> 0]
                  ELSE DigitsValue(Tail(ds), acc * 10 + d, sign)
             ELSE IF acc < (MinI32 + d + 9) \div 10
                  THEN [ok |-> FALSE, val |-> 0]
                  ELSE DigitsValue(Tail(ds), acc * 10 - d, sign)

\* i32::from_str: an optional sign, then one or more digits, within i32.
ParseI32(s) ==
    IF s = <<>> THEN [ok |-> FALSE, val |-> 0]
    ELSE IF Head(s) \in {PlusSign, MinusSign}
         THEN IF Len(s) = 1 THEN [ok |-> FALSE, val |-> 0]
              ELSE DigitsValue(Tail(s), 0, IF Head(s) = MinusSign THEN -1 ELSE 1)
         ELSE DigitsValue(s, 0, 1)

(* ---------------------------------------------------------------------- *)
(* CPUResult, Operand, CPUOp                                               *)
(* ---------------------------------------------------------------------- *)
FaultKinds == {"InvalidOpcode", "InvalidOperand", "InvalidInput", "OutOfBounds"}

Ok(v) == [ok |-> TRUE, kind |-> "None", val |-> v]

Err(k) == [ok |-> FALSE, kind |-> k, val |-> 0]

Position(idx) == [tag |-> "Position", idx |-> idx, val |-> 0]

Immediate(v) == [tag |-> "Immediate", idx |-> Index(0), val |-> v]

NoOperand == [tag |-> "None", idx |-> Index(0), val |-> 0]

\* Operand::new that refuses a negative position.
OperandNewChecksSign(mode, value) ==
    IF mode = DigitChar(0)
    THEN IF value < 0 THEN Err("InvalidOperand") ELSE Ok(Position(AsUsize(value)))
    ELSE IF mode = DigitChar(1) THEN Ok(Immediate(value))
    ELSE Err("InvalidOperand")

\* Operand::new that takes every digit other than 0 for immediate.
OperandNewLenient(mode, value) ==
    IF mode = DigitChar(0) THEN Ok(Position(AsUsize(value)))
    ELSE Ok(Immediate(value))

\* Operand::new
OperandNew(mode, value) ==
    IF mode = DigitChar(0) THEN Ok(Position(AsUsize(value)))
    ELSE IF mode = DigitChar(1) THEN Ok(Immediate(value))
    ELSE Err("InvalidOperand")

\* A decoded instruction: a and b are the source operands (src1/src2,
\* cmp1/cmp2, cmp/to, src), dst the destination index, code the number
\* carried by Undefined.
Op(name, a, b, dst, code) == [name |-> name, a |-> a, b |-> b, dst |-> dst, code |-> code]

\* next_pc_offset with Halt counted as a one-cell instruction.
NextPcOffsetHaltAdvances(op) ==
    IF op.name \in {"Add", "Mul", "CompareEqual", "CompareLess"} THEN 4
    ELSE IF op.name \in {"JumpZero", "JumpNonZero"} THEN 3
    ELSE IF op.name \in {"Input", "Output"} THEN 2
    ELSE IF op.name = "Halt" THEN 1
    ELSE 0

\* next_pc_offset with the jumps counted as four-cell instructions.
NextPcOffsetJumpFour(op) ==
    IF op.name \in {"Add", "Mul", "CompareEqual", "CompareLess"} THEN 4
    ELSE IF op.name \in {"JumpZero", "JumpNonZero"} THEN 4
    ELSE IF op.name \in {"Input", "Output"} THEN 2
    ELSE 0

\* next_pc_offset that leaves pc where it is after Output.
NextPcOffsetOutputStays(op) ==
    IF op.name \in {"Add", "Mul", "CompareEqual", "CompareLess"} THEN 4
    ELSE IF op.name \in {"JumpZero", "JumpNonZero"} THEN 3
    ELSE IF op.name = "Input" THEN 2
    ELSE 0

\* CPUOp::next_pc_offset
NextPcOffset(op) ==
    IF op.name \in {"Add", "Mul", "CompareEqual", "CompareLess"} THEN 4
    ELSE IF op.name \in {"JumpZero", "JumpNonZero"} THEN 3
    ELSE IF op.name \in {"Input", "Output"} THEN 2
    ELSE 0

(* ---------------------------------------------------------------------- *)
(* fetch_op                                                                *)
(* ---------------------------------------------------------------------- *)
\* get with an off-by-one bound: the index just past the end reads as 0.
GetPastEnd(cells, idx) ==
    IF InBounds(cells, idx) THEN Ok(cells[idx.n + 1])
    ELSE IF ~idx.wrapped /\ idx.n = Len(cells) THEN Ok(0)
    ELSE Err("OutOfBounds")

\* self.program.get(idx): the cell, or the out-of-bounds fault.
Get(cells, idx) ==
    IF InBounds(cells, idx) THEN Ok(cells[idx.n + 1]) ELSE Err("OutOfBounds")

\* FetchThree with the two source mode digits taken in the wrong order.
FetchThreeModesSwapped(cells, at, modes, name) ==
    LET c1 == Get(cells, UsizeAdd(at, 1))
        c2 == Get(cells, UsizeAdd(at, 2))
        c3 == Get(cells, UsizeAdd(at, 3))
    IN  IF ~c1.ok THEN c1
        ELSE IF ~c2.ok THEN c2
        ELSE IF ~c3.ok THEN c3
        ELSE LET o1 == OperandNew(modes[2], c1.val)
                 o2 == OperandNew(modes[1], c2.val)
             IN  IF ~o1.ok THEN o1
                 ELSE IF ~o2.ok THEN o2
                 ELSE Ok(Op(name, o1.val, o2.val, AsUsize(c3.val), 0))

\* FetchThree that refuses a destination whose mode digit is 1.
FetchThreeRejectsImmediateDst(cells, at, modes, name) ==
    LET c1 == Get(cells, UsizeAdd(at, 1))
        c2 == Get(cells, UsizeAdd(at, 2))
        c3 == Get(cells, UsizeAdd(at, 3))
    IN  IF ~c1.ok THEN c1
        ELSE IF ~c2.ok THEN c2
        ELSE IF ~c3.ok THEN c3
        ELSE LET o1 == OperandNew(modes[1], c1.val)
                 o2 == OperandNew(modes[2], c2.val)
             IN  IF ~o1.ok THEN o1
                 ELSE IF ~o2.ok THEN o2
                 ELSE IF modes[3] = DigitChar(1) THEN Err("InvalidOperand")
                 ELSE Ok(Op(name, o1.val, o2.val, AsUsize(c3.val), 0))

\* The two-source, one-destination layout of "01", "02", "07", "08":
\* three cell reads first, then the two Operand::new calls.
FetchThree(cells, at, modes, name) ==
    LET c1 == Get(cells, UsizeAdd(at, 1))
        c2 == Get(cells, UsizeAdd(at, 2))
        c3 == Get(cells, UsizeAdd(at, 3))
    IN  IF ~c1.ok THEN c1
        ELSE IF ~c2.ok THEN c2
        ELSE IF ~c3.ok THEN c3
        ELSE LET o1 == OperandNew(modes[1], c1.val)
                 o2 == OperandNew(modes[2], c2.val)
             IN  IF ~o1.ok THEN o1
                 ELSE IF ~o2.ok THEN o2
                 ELSE Ok(Op(name, o1.val, o2.val, AsUsize(c3.val), 0))

\* The two-source layout of "05" and "06".
FetchTwo(cells, at, modes, name) ==
    LET c1 == Get(cells, UsizeAdd(at, 1))
        c2 == Get(cells, UsizeAdd(at, 2))
    IN  IF ~c1.ok THEN c1
        ELSE IF ~c2.ok THEN c2
        ELSE LET o1 == OperandNew(modes[1], c1.val)
                 o2 == OperandNew(modes[2], c2.val)
             IN  IF ~o1.ok THEN o1
                 ELSE IF ~o2.ok THEN o2
                 ELSE Ok(Op(name, o1.val, o2.val, Index(0), 0))

\* "03": the destination is read from the cell at pc + 3.
FetchInput(cells, at) ==
    LET c == Get(cells, UsizeAdd(at, 3))
    IN  IF ~c.ok THEN c
        ELSE Ok(Op("Input", NoOperand, NoOperand, AsUsize(c.val), 0))

\* "04"
FetchOutput(cells, at, modes) ==
    LET c == Get(cells, UsizeAdd(at, 1))
    IN  IF ~c.ok THEN c
        ELSE LET o == OperandNew(modes[1], c.val)
             IN  IF ~o.ok THEN o
                 ELSE Ok(Op("Output", o.val, NoOperand, Index(0), 0))

\* Dispatch that refuses INPUT when its mode digit is 1.
DispatchRejectsImmediateInput(cells, at, modes, op) ==
    IF op = <<DigitChar(0), DigitChar(1)>> THEN FetchThree(cells, at, modes, "Add")
    ELSE IF op = <<DigitChar(0), DigitChar(2)>> THEN FetchThree(cells, at, modes, "Mul")
    ELSE IF op = <<DigitChar(0), DigitChar(3)>>
         THEN IF modes[1] = DigitChar(1) THEN Err("InvalidOperand") ELSE FetchInput(cells, at)
    ELSE IF op = <<DigitChar(0), DigitChar(4)>> THEN FetchOutput(cells, at, modes)
    ELSE IF op = <<DigitChar(0), DigitChar(5)>> THEN FetchTwo(cells, at, modes, "JumpNonZero")
    ELSE IF op = <<DigitChar(0), DigitChar(6)>> THEN FetchTwo(cells, at, modes, "JumpZero")
    ELSE IF op = <<DigitChar(0), DigitChar(7)>> THEN FetchThree(cells, at, modes, "CompareLess")
    ELSE IF op = <<DigitChar(0), DigitChar(8)>> THEN FetchThree(cells, at, modes, "CompareEqual")
    ELSE IF op = <<DigitChar(9), DigitChar(9)>> THEN Ok(Op("Halt", NoOperand, NoOperand, Index(0), 0))
    ELSE Ok(Op("Undefined", NoOperand, NoOperand, Index(0), ParseI32(op).val))

\* The match on the opcode characters.
Dispatch(cells, at, modes, op) ==
    IF op = <<DigitChar(0), DigitChar(1)>> THEN FetchThree(cells, at, modes, "Add")
    ELSE IF op = <<DigitChar(0), DigitChar(2)>> THEN FetchThree(cells, at, modes, "Mul")
    ELSE IF op = <<DigitChar(0), DigitChar(3)>> THEN FetchInput(cells, at)
    ELSE IF op = <<DigitChar(0), DigitChar(4)>> THEN FetchOutput(cells, at, modes)
    ELSE IF op = <<DigitChar(0), DigitChar(5)>> THEN FetchTwo(cells, at, modes, "JumpNonZero")
    ELSE IF op = <<DigitChar(0), DigitChar(6)>> THEN FetchTwo(cells, at, modes, "JumpZero")
    ELSE IF op = <<DigitChar(0), DigitChar(7)>> THEN FetchThree(cells, at, modes, "CompareLess")
    ELSE IF op = <<DigitChar(0), DigitChar(8)>> THEN FetchThree(cells, at, modes, "CompareEqual")
    ELSE IF op = <<DigitChar(9), DigitChar(9)>> THEN Ok(Op("Halt", NoOperand, NoOperand, Index(0), 0))
    ELSE Ok(Op("Undefined", NoOperand, NoOperand, Index(0), ParseI32(op).val))

\* The opcode cell as fetch_op takes it apart: the characters after the
\* third are the opcode, the first three, reversed, the operand modes.
Decode(opcode) ==
    LET parts == SplitAt3(Format05(opcode))
    IN  [modes |-> Reverse(parts.modes), op |-> parts.op]

\* IntcodeCPU::fetch_op
FetchOp(cells, at) ==
    LET opcode == Get(cells, at)
    IN  IF ~opcode.ok THEN opcode
        ELSE IF opcode.val < 0 THEN Err("InvalidOpcode")
        ELSE LET d == Decode(opcode.val)
             IN  Dispatch(cells, at, d.modes, d.op)

(* ---------------------------------------------------------------------- *)
(* execute_op                                                              *)
(* ---------------------------------------------------------------------- *)
\* IntcodeCPU::get_operand_value
GetOperandValue(cells, oper) ==
    IF oper.tag = "Position" THEN Get(cells, oper.idx) ELSE Ok(oper.val)

\* What one call leaves behind: res is "Ok", a fault kind, or "Panic" (the
\* process aborted); cpu = [program, state, pc]; io = [stdin, stdout].
Outcome(res, cpu, io) == [res |-> res, cpu |-> cpu, io |-> io]

\* A store that also overwrites the cell after the destination.
WriteCellSpills(cells, idx, v) ==
    [i \in 1..Len(cells) |-> IF i = idx.n + 1 \/ i = idx.n + 2 THEN v ELSE cells[i]]

\* A store that is lost.
WriteCellDropped(cells, idx, v) == cells

\* *dst_cell = v
WriteCell(cells, idx, v) == [cells EXCEPT ![idx.n + 1] = v]

\* self.pc += offset
AdvancePc(cpu, offset) == [cpu EXCEPT !.pc = UsizeAdd(cpu.pc, offset)]

\* ExecArith with the destination check lost: a store outside the array is
\* dropped and the step goes on.
ExecArithDropsStore(cpu, io, op, overflowChecks) ==
    LET v1 == GetOperandValue(cpu.program, op.a)
        v2 == GetOperandValue(cpu.program, op.b)
    IN  IF ~v1.ok THEN Outcome(v1.kind, cpu, io)
        ELSE IF ~v2.ok THEN Outcome(v2.kind, cpu, io)
        ELSE IF ~InBounds(cpu.program, op.dst)
             THEN Outcome("Ok", AdvancePc(cpu, NextPcOffset(op)), io)
        ELSE LET r == IF op.name = "Add"
                      THEN AddI32(v1.val, v2.val, overflowChecks)
                      ELSE MulI32(v1.val, v2.val, overflowChecks)
             IN  IF r.panic THEN Outcome("Panic", cpu, io)
                 ELSE Outcome("Ok",
                        AdvancePc([cpu EXCEPT !.program = WriteCell(@, op.dst, r.val)],
                                  NextPcOffset(op)),
                        io)

\* Add and Mul: both sources, then get_mut(dst), then the arithmetic and
\* the store.
ExecArith(cpu, io, op, overflowChecks) ==
    LET v1 == GetOperandValue(cpu.program, op.a)
        v2 == GetOperandValue(cpu.program, op.b)
    IN  IF ~v1.ok THEN Outcome(v1.kind, cpu, io)
        ELSE IF ~v2.ok THEN Outcome(v2.kind, cpu, io)
        ELSE IF ~InBounds(cpu.program, op.dst) THEN Outcome("OutOfBounds", cpu, io)
        ELSE LET r == IF op.name = "Add"
                      THEN AddI32(v1.val, v2.val, overflowChecks)
                      ELSE MulI32(v1.val, v2.val, overflowChecks)
             IN  IF r.panic THEN Outcome("Panic", cpu, io)
                 ELSE Outcome("Ok",
                        AdvancePc([cpu EXCEPT !.program = WriteCell(@, op.dst, r.val)],
                                  NextPcOffset(op)),
                        io)

\* ExecCompare on the cells read as unsigned 32-bit numbers: a negative
\* value ranks above every non-negative one.
ExecCompareUnsigned(cpu, io, op) ==
    LET v1 == GetOperandValue(cpu.program, op.a)
        v2 == GetOperandValue(cpu.program, op.b)
    IN  IF ~v1.ok THEN Outcome(v1.kind, cpu, io)
        ELSE IF ~v2.ok THEN Outcome(v2.kind, cpu, io)
        ELSE IF ~InBounds(cpu.program, op.dst) THEN Outcome("OutOfBounds", cpu, io)
        ELSE LET holds == IF op.name = "CompareEqual"
                          THEN v1.val = v2.val
                          ELSE IF (v1.val < 0) = (v2.val < 0)
                               THEN v1.val < v2.val
                               ELSE v2.val < 0
             IN  Outcome("Ok",
                    AdvancePc([cpu EXCEPT !.program =
                                  WriteCell(@, op.dst, IF holds THEN 1 ELSE 0)],
                              NextPcOffset(op)),
                    io)

\* CompareEqual and CompareLess.
ExecCompare(cpu, io, op) ==
    LET v1 == GetOperandValue(cpu.program, op.a)
        v2 == GetOperandValue(cpu.program, op.b)
    IN  IF ~v1.ok THEN Outcome(v1.kind, cpu, io)
        ELSE IF ~v2.ok THEN Outcome(v2.kind, cpu, io)
        ELSE IF ~InBounds(cpu.program, op.dst) THEN Outcome("OutOfBounds", cpu, io)
        ELSE LET holds == IF op.name = "CompareEqual"
                          THEN v1.val = v2.val
                          ELSE v1.val < v2.val
             IN  Outcome("Ok",
                    AdvancePc([cpu EXCEPT !.program =
                                  WriteCell(@, op.dst, IF holds THEN 1 ELSE 0)],
                              NextPcOffset(op)),
                    io)

\* A jump that steps over its own cells before it resolves its operands.
ExecJumpAdvancesFirst(cpu, io, op) ==
    LET cmp == GetOperandValue(cpu.program, op.a)
        to == GetOperandValue(cpu.program, op.b)
        cpu2 == AdvancePc(cpu, NextPcOffset(op))
    IN  IF ~cmp.ok THEN Outcome(cmp.kind, cpu2, io)
        ELSE IF ~to.ok THEN Outcome(to.kind, cpu2, io)
        ELSE IF (op.name = "JumpZero") = (cmp.val = 0)
             THEN Outcome("Ok", [cpu EXCEPT !.pc = AsUsize(to.val)], io)
             ELSE Outcome("Ok", cpu2, io)

\* A taken jump that adds the fall-through advance to its target.
ExecJumpOvershoots(cpu, io, op) ==
    LET cmp == GetOperandValue(cpu.program, op.a)
        to == GetOperandValue(cpu.program, op.b)
    IN  IF ~cmp.ok THEN Outcome(cmp.kind, cpu, io)
        ELSE IF ~to.ok THEN Outcome(to.kind, cpu, io)
        ELSE IF (op.name = "JumpZero") = (cmp.val = 0)
             THEN Outcome("Ok",
                    AdvancePc([cpu EXCEPT !.pc = AsUsize(to.val)], NextPcOffset(op)), io)
             ELSE Outcome("Ok", AdvancePc(cpu, NextPcOffset(op)), io)

\* JumpZero and JumpNonZero: both operands resolved, then the test.
ExecJump(cpu, io, op) ==
    LET cmp == GetOperandValue(cpu.program, op.a)
        to == GetOperandValue(cpu.program, op.b)
    IN  IF ~cmp.ok THEN Outcome(cmp.kind, cpu, io)
        ELSE IF ~to.ok THEN Outcome(to.kind, cpu, io)
        ELSE IF (op.name = "JumpZero") = (cmp.val = 0)
             THEN Outcome("Ok", [cpu EXCEPT !.pc = AsUsize(to.val)], io)
             ELSE Outcome("Ok", AdvancePc(cpu, NextPcOffset(op)), io)

\* One entry of the console's output stream.
Prompt == [kind |-> "Prompt", val |-> 0]

Printed(v) == [kind |-> "Output", val |-> v]

\* read_line that hands out the next line without taking it off the input.
ReadLineKeepsLine(in) ==
    IF in = <<>> THEN [ok |-> TRUE, text |-> <<>>, rest |-> in]
    ELSE [ok |-> ~Head(in).err, text |-> Head(in).text, rest |-> in]

\* stdin().read_line: the next line of the host's input, or the empty
\* string at end of input; a line the host cannot deliver is a read error.
ReadLine(in) ==
    IF in = <<>> THEN [ok |-> TRUE, text |-> <<>>, rest |-> in]
    ELSE [ok |-> ~Head(in).err, text |-> Head(in).text, rest |-> Tail(in)]

\* Input that advances the pc before it looks at what was read.
ExecInputAdvancesFirst(cpu, io, op) ==
    IF ~InBounds(cpu.program, op.dst) THEN Outcome("OutOfBounds", cpu, io)
    ELSE LET line == ReadLine(io.stdin)
             io2 == [stdin |-> line.rest, stdout |-> Append(io.stdout, Prompt)]
             input == ParseI32(Trim(line.text))
             cpu2 == AdvancePc(cpu, NextPcOffset(op))
         IN  IF ~line.ok THEN Outcome("InvalidInput", cpu2, io2)
             ELSE IF ~input.ok THEN Outcome("InvalidInput", cpu2, io2)
             ELSE Outcome("Ok", [cpu2 EXCEPT !.program = WriteCell(@, op.dst, input.val)],
                          io2)

\* Input that stores 0 and goes on when the host gives no integer.
ExecInputStoresZero(cpu, io, op) ==
    IF ~InBounds(cpu.program, op.dst) THEN Outcome("OutOfBounds", cpu, io)
    ELSE LET line == ReadLine(io.stdin)
             io2 == [stdin |-> line.rest, stdout |-> Append(io.stdout, Prompt)]
             input == ParseI32(Trim(line.text))
             v == IF line.ok /\ input.ok THEN input.val ELSE 0
         IN  Outcome("Ok",
                AdvancePc([cpu EXCEPT !.program = WriteCell(@, op.dst, v)],
                          NextPcOffset(op)),
                io2)

\* Input that asks the host before it checks its destination.
ExecInputReadsFirst(cpu, io, op) ==
    LET line == ReadLine(io.stdin)
        io2 == [stdin |-> line.rest, stdout |-> Append(io.stdout, Prompt)]
        input == ParseI32(Trim(line.text))
    IN  IF ~InBounds(cpu.program, op.dst) THEN Outcome("OutOfBounds", cpu, io2)
        ELSE IF ~line.ok THEN Outcome("InvalidInput", cpu, io2)
        ELSE IF ~input.ok THEN Outcome("InvalidInput", cpu, io2)
        ELSE Outcome("Ok",
               AdvancePc([cpu EXCEPT !.program = WriteCell(@, op.dst, input.val)],
                         NextPcOffset(op)),
               io2)

\* Input: get_mut(dst), the prompt, the line, the parse, the store.
ExecInput(cpu, io, op) ==
    IF ~InBounds(cpu.program, op.dst) THEN Outcome("OutOfBounds", cpu, io)
    ELSE LET line == ReadLine(io.stdin)
             io2 == [stdin |-> line.rest, stdout |-> Append(io.stdout, Prompt)]
             input == ParseI32(Trim(line.text))
         IN  IF ~line.ok THEN Outcome("InvalidInput", cpu, io2)
             ELSE IF ~input.ok THEN Outcome("InvalidInput", cpu, io2)
             ELSE Outcome("Ok",
                    AdvancePc([cpu EXCEPT !.program = WriteCell(@, op.dst, input.val)],
                              NextPcOffset(op)),
                    io2)

\* Output
ExecOutput(cpu, io, op) ==
    LET v == GetOperandValue(cpu.program, op.a)
    IN  IF ~v.ok THEN Outcome(v.kind, cpu, io)
        ELSE Outcome("Ok", AdvancePc(cpu, NextPcOffset(op)),
                     [io EXCEPT !.stdout = Append(@, Printed(v.val))])

\* Halt that advances the pc and forgets to set the state.
ExecHaltKeepsRunning(cpu, io, op) ==
    Outcome("Ok", AdvancePc(cpu, NextPcOffset(op)), io)

\* Halt
ExecHalt(cpu, io, op) ==
    Outcome("Ok", AdvancePc([cpu EXCEPT !.state = "Halted"], NextPcOffset(op)), io)

\* execute_op that steps over an undefined opcode as a one-cell no-op.
ExecuteOpSkipsUndefined(cpu, io, op, overflowChecks) ==
    IF op.name \in {"Add", "Mul"} THEN ExecArith(cpu, io, op, overflowChecks)
    ELSE IF op.name = "Halt" THEN ExecHalt(cpu, io, op)
    ELSE IF op.name = "Input" THEN ExecInput(cpu, io, op)
    ELSE IF op.name \in {"JumpZero", "JumpNonZero"} THEN ExecJump(cpu, io, op)
    ELSE IF op.name \in {"CompareEqual", "CompareLess"} THEN ExecCompare(cpu, io, op)
    ELSE IF op.name = "Output" THEN ExecOutput(cpu, io, op)
    ELSE Outcome("Ok", AdvancePc(cpu, 1), io)

\* IntcodeCPU::execute_op
ExecuteOp(cpu, io, op, overflowChecks) ==
    IF op.name \in {"Add", "Mul"} THEN ExecArith(cpu, io, op, overflowChecks)
    ELSE IF op.name = "Halt" THEN ExecHalt(cpu, io, op)
    ELSE IF op.name = "Input" THEN ExecInput(cpu, io, op)
    ELSE IF op.name \in {"JumpZero", "JumpNonZero"} THEN ExecJump(cpu, io, op)
    ELSE IF op.name \in {"CompareEqual", "CompareLess"} THEN ExecCompare(cpu, io, op)
    ELSE IF op.name = "Output" THEN ExecOutput(cpu, io, op)
    ELSE Outcome("InvalidOpcode", cpu, io)

\* IntcodeCPU::step: the outcome, with res "Running" or "Halted" (the state
\* returned) in place of "Ok".
StepCpu(cpu, io, overflowChecks) ==
    LET op == FetchOp(cpu.program, cpu.pc)
    IN  IF ~op.ok THEN Outcome(op.kind, cpu, io)
        ELSE LET out == ExecuteOp(cpu, io, op.val, overflowChecks)
             IN  IF out.res = "Ok" THEN [out EXCEPT !.res = out.cpu.state] ELSE out

\* The offsets of the operand cells fetch_op reads for each opcode.
OperandOffsets(op) ==
    IF op \in {<<DigitChar(0), DigitChar(1)>>, <<DigitChar(0), DigitChar(2)>>, <<DigitChar(0), DigitChar(7)>>, <<DigitChar(0), DigitChar(8)>>} THEN <<1, 2, 3>>
    ELSE IF op \in {<<DigitChar(0), DigitChar(5)>>, <<DigitChar(0), DigitChar(6)>>} THEN <<1, 2>>
    ELSE IF op = <<DigitChar(0), DigitChar(3)>> THEN <<3>>
    ELSE IF op = <<DigitChar(0), DigitChar(4)>> THEN <<1>>
    ELSE <<>>

\* The indices execute_op passes to get (position-mode sources, in order)
\* and get_mut (the destination).
ExecIndices(op) ==
    LET srcA == IF op.a.tag = "Position" THEN <<op.a.idx>> ELSE <<>>
        srcB == IF op.b.tag = "Position" THEN <<op.b.idx>> ELSE <<>>
    IN  IF op.name \in {"Add", "Mul", "CompareEqual", "CompareLess"}
        THEN srcA \o srcB \o <<op.dst>>
        ELSE IF op.name = "Input" THEN <<op.dst>>
        ELSE IF op.name \in {"JumpZero", "JumpNonZero", "Output"} THEN srcA \o srcB
        ELSE <<>>

RECURSIVE UntilFirstMiss(_, _)
\* A call sequence ends at the first get/get_mut that fails.
UntilFirstMiss(cells, idxs) ==
    IF idxs = <<>> THEN <<>>
    ELSE IF ~InBounds(cells, Head(idxs)) THEN <<Head(idxs)>>
    ELSE <<Head(idxs)>> \o UntilFirstMiss(cells, Tail(idxs))

\* Every index one step() passes to Vec::get or Vec::get_mut, in call
\* order: the opcode cell, the operand cells, then execute_op's accesses.
StepAccesses(cpu) ==
    LET cells == cpu.program
        opcode == Get(cells, cpu.pc)
        operands == IF opcode.ok /\ opcode.val >= 0
                    THEN LET offs == OperandOffsets(Decode(opcode.val).op)
                         IN  [i \in 1..Len(offs) |-> UsizeAdd(cpu.pc, offs[i])]
                    ELSE <<>>
        op == FetchOp(cells, cpu.pc)
        exec == IF op.ok THEN ExecIndices(op.val) ELSE <<>>
    IN  UntilFirstMiss(cells, <<cpu.pc>> \o operands \o exec)

\* What a call of step() can do: one outcome, or two where an addition or
\* multiplication overflows (the build with overflow checks panics, the
\* build without them wraps).
StepOutcomes(cpu, io) == {StepCpu(cpu, io, overflowChecks) : overflowChecks \in BOOLEAN}

(* ---------------------------------------------------------------------- *)
(* The programs and console scripts the machine is started on              *)
(* ---------------------------------------------------------------------- *)
\* Opcode cells: every instruction in every source-mode combination, the
\* destination mode digit set, mode digits other than 0 and 1, undefined
\* and negative opcodes (opcode 00 with mode digits among them), and cells
\* of more than five digits.
OpCells ==
    {op + 100 * m1 + 1000 * m2 : op \in {1, 2, 5, 6, 7, 8}, m1 \in {0, 1}, m2 \in {0, 1}}
    \cup {10000 + op + 1100 * m : op \in {1, 2, 7, 8}, m \in {0, 1}}
    \cup {3, 103, 4, 104, 99, 1199}
    \cup {0, 9, -1, 201, 2001, 204, 2005}
    \cup {1100, 3007}
    \cup {100001, 100099}

\* Operand cells: indices inside and outside the array, a negative value,
\* zero and non-zero literals, jump targets, and cells that are themselves
\* opcodes (3, 99) when the program counter reaches them.
Vals == {-1, 0, 3, 99}

\* The cells that follow the first four.
TailCells == <<99, 0, 4, 0, 99, 0>>

Prefix(s, n) == SubSeq(s, 1, n)

Generated ==
    {Prefix(<<c0, c1, c2, c3>> \o TailCells, n) :
        c0 \in OpCells, c1 \in Vals, c2 \in Vals, c3 \in Vals, n \in 1..MaxLen}

\* Lines the host types.
Line(text) == [err |-> FALSE, text |-> text]

Line8 == Line(<<DigitChar(8), LineFeed>>)

LineNeg == Line(<<Space, MinusSign, DigitChar(1), LineFeed>>)

LineJunk == Line(<<LetterX, LineFeed>>)

\* An integer behind a form feed, and one between a no-break space and a
\* vertical tab.
LineFormFeed == Line(<<FormFeed, DigitChar(8), LineFeed>>)

LineNoBreak == Line(<<NoBreakSpace, DigitChar(7), VerticalTab, LineFeed>>)

\* An integer behind an Ogham space mark, an em space behind it.
LineOgham == Line(<<OghamSpaceMark, DigitChar(8), EmSpace, LineFeed>>)

\* An integer between an ideographic space and a line separator.
LineIdeographic == Line(<<IdeographicSpace, DigitChar(7), LineSeparator, LineFeed>>)

\* A next-line character inside the digits, where trim leaves it.
LineSplit == Line(<<DigitChar(4), NextLine, DigitChar(2), LineFeed>>)

LineUnreadable == [err |-> TRUE, text |-> <<>>]

AllScripts ==
    { <<>>, <<Line8>>, <<LineJunk>>, <<LineUnreadable>>,
      <<Line8, LineNeg>>, <<LineJunk, Line8>>,
      <<Line8, LineNeg, Line8>>, <<LineJunk, LineUnreadable, LineNeg>> }

Scripts == {s \in AllScripts : Len(s) <= MaxInput}

\* The worked examples (program, host input) of the day-2 tests and of the
\* puzzle texts, a program that reads and prints twice, and programs whose
\* arithmetic leaves the i32 range.
Line42 == Line(<<DigitChar(4), DigitChar(2), LineFeed>>)

Line7 == Line(<<DigitChar(7), LineFeed>>)

Scenario(cells, script) == [program |-> cells, stdin |-> script]

Scenarios ==
    { Scenario(<<1, 9, 10, 3, 2, 3, 11, 0, 99, 30, 40, 50>>, <<>>),
      Scenario(<<1, 0, 0, 0, 99>>, <<>>),
      Scenario(<<2, 3, 0, 3, 99>>, <<>>),
      Scenario(<<2, 4, 4, 5, 99, 0>>, <<>>),
      Scenario(<<1, 1, 1, 4, 99, 5, 6, 0, 99>>, <<>>),
      Scenario(<<3, 0, 4, 0, 99>>, <<Line42>>),
      Scenario(<<1002, 4, 3, 4, 33>>, <<>>),
      Scenario(<<3, 9, 8, 9, 10, 9, 4, 9, 99, -1, 8>>, <<Line8>>),
      Scenario(<<3, 9, 8, 9, 10, 9, 4, 9, 99, -1, 8>>, <<Line7>>),
      Scenario(<<3, 9, 8, 9, 10, 9, 4, 9, 99, -1, 8>>, <<LineNeg>>),
      Scenario(<<3, 9, 8, 9, 10, 9, 4, 9, 99, -1, 8>>, <<Line42>>),
      Scenario(<<3, 0, 4, 0, 3, 0, 4, 0>>, <<Line8, LineNeg>>),
      Scenario(<<3, 0, 4, 0, 99>>, <<LineFormFeed>>),
      Scenario(<<3, 0, 99, 0>>, <<LineNoBreak>>),
      Scenario(<<3, 0, 4, 0, 99>>, <<LineOgham>>),
      Scenario(<<3, 0, 99, 0>>, <<LineIdeographic>>),
      Scenario(<<3, 0, 4, 0, 99>>, <<LineSplit>>),
      Scenario(<<1101, MaxI32, 1, 0, 99>>, <<>>),
      Scenario(<<1102, 65536, 65536, 0, 99>>, <<>>),
      Scenario(<<1102, -65536, 65537, 0, 99>>, <<>>),
      Scenario(<<1, 0, 5, 0, 99, MaxI32>>, <<>>),
      Scenario(<<2, 5, 5, 0, 99, 65536>>, <<>>) }

(* ---------------------------------------------------------------------- *)
(* The state machine                                                       *)
(* ---------------------------------------------------------------------- *)
Cpu == [program |-> program, state |-> state, pc |-> pc]

Console == [stdin |-> stdin, stdout |-> stdout]

Snapshot ==
    [program |-> program, state |-> state, pc |-> pc,
     stdin |-> stdin, stdout |-> stdout, result |-> result]

\* The scripts a program is started on: all of them where a cell names
\* INPUT, the empty one and a one-line one where none does.
ScriptsFor(cells) ==
    IF \E i \in 1..Len(cells) : cells[i] >= 0 /\ cells[i] % 100 = 3
    THEN Scripts
    ELSE {<<>>, <<Line8>>}

\* IntcodeCPU::new on a loaded program; the host's script is on stdin.
Fresh ==
    /\ \/ program \in Generated /\ stdin \in ScriptsFor(program)
       \/ \E sc \in Scenarios : program = sc.program /\ stdin = sc.stdin
    /\ state = "Running"
    /\ pc = Index(0)
    /\ stdout = <<>>
    /\ result = "None"
    /\ prev = Snapshot
    /\ faulted = FALSE
    /\ steps = 0
    /\ hostInput = stdin
    /\ received = <<>>
    /\ loaded = program
    /\ calls = 0
    /\ jumped = FALSE

\* No day-2 machine.
NoDay2 ==
    [present |-> FALSE, program |-> <<>>, state |-> "Running", pc |-> 0,
     result |-> "None", run |-> "NotCalled",
     prev |-> [program |-> <<>>, state |-> "Running", pc |-> 0],
     trace |-> <<>>, overflowed |-> FALSE]

\* part2 of day 2 is not running.
NoSearch ==
    [status |-> "Off", input |-> <<>>, noun |-> 0, verb |-> 0, tried |-> 0,
     skipped |-> 0, matches |-> {}, answer |-> -1, exit |-> -1,
     warning |-> [kind |-> "None", pc |-> 0, noun |-> 0, verb |-> 0]]

\* The host drives the machine by calling step() itself.
Init ==
    /\ Fresh
    /\ run = "NotCalled"
    /\ d2 = NoDay2
    /\ calls2 = 0
    /\ search = NoSearch

\* The integer a call of step() took from the host: the value its INPUT
\* stored (the prompt is printed by INPUT alone), or nothing.
Delivered(cpu, io, out) ==
    IF out.res = "Running" /\ out.io.stdout = Append(io.stdout, Prompt)
    THEN <<out.cpu.program[FetchOp(cpu.program, cpu.pc).val.dst.n + 1]>>
    ELSE <<>>

\* One call of step() with outcome out.  prev keeps the machine and
\* console as they were before the call, result what the call returned,
\* faulted whether an earlier call had returned a fault, steps the number
\* of calls that changed the machine or the console, hostInput the lines
\* the host had ready at the start, received the integers INPUT has stored
\* so far, loaded the cells at the start.
StepCall(out) ==
    /\ program' = out.cpu.program
    /\ state' = out.cpu.state
    /\ pc' = out.cpu.pc
    /\ stdin' = out.io.stdin
    /\ stdout' = out.io.stdout
    /\ result' = out.res
    /\ steps' = IF out.cpu # Cpu \/ out.io # Console THEN steps + 1 ELSE steps
    /\ received' = received \o Delivered(Cpu, Console, out)
    /\ prev' = Snapshot
    /\ faulted' = (faulted \/ result \in FaultKinds)
    /\ UNCHANGED <<hostInput, loaded>>

\* The host calls step().
Step ==
    /\ run = "NotCalled"
    /\ result # "Panic"
    /\ steps < MaxSteps
    /\ \E out \in StepOutcomes(Cpu, Console) : StepCall(out)
    /\ UNCHANGED <<run, calls, jumped, d2, calls2, search>>

Next == Step

Spec == Init /\ [][Next]_vars

(* ---------------------------------------------------------------------- *)
(* The day-2 machine (src/bin/day02/intcode.rs): cells are u32, three      *)
(* opcodes, position-mode operands only.  A u32 is kept as two 16-bit      *)
(* halves so that every value up to 2^32 - 1 is represented.               *)
(* ---------------------------------------------------------------------- *)
Half == 65536

\* The u32 with value v, 0 <= v < 2^31.
U32(v) == [hi |-> v \div Half, lo |-> v % Half]

\* Vec<u32> from cells that are all non-negative.
U32Cells(cells) == [i \in 1..Len(cells) |-> U32(cells[i])]

\* a + b on u32 leaves the type's range.
U32AddOverflows(a, b) == a.hi + b.hi + (a.lo + b.lo) \div Half >= Half

\* a.wrapping_add(b)
U32WrappingAdd(a, b) ==
    [hi |-> (a.hi + b.hi + (a.lo + b.lo) \div Half) % Half, lo |-> (a.lo + b.lo) % Half]

\* The 32-bit product of two 16-bit halves, by bytes.
Mul16(x, y) ==
    LET low == ((x \div 256) * (y % 256) + (x % 256) * (y \div 256)) * 256
                 + (x % 256) * (y % 256)
    IN  [hi |-> (x \div 256) * (y \div 256) + low \div Half, lo |-> low % Half]

\* Bits 16.. of a * b, before reduction, when a.hi * b.hi = 0.
U32MulMiddle(a, b) == Mul16(a.hi, b.lo).lo + Mul16(a.lo, b.hi).lo + Mul16(a.lo, b.lo).hi

\* a * b on u32 leaves the type's range.
U32MulOverflows(a, b) ==
    \/ a.hi > 0 /\ b.hi > 0
    \/ Mul16(a.hi, b.lo).hi > 0
    \/ Mul16(a.lo, b.hi).hi > 0
    \/ U32MulMiddle(a, b) >= Half

\* a.wrapping_mul(b)
U32WrappingMul(a, b) == [hi |-> U32MulMiddle(a, b) % Half, lo |-> Mul16(a.lo, b.lo).lo]

\* src1_val + src2_val / src1_val * src2_val on u32: a panic where the
\* build checks overflow, the wrapped value where it does not.
U32Arith(name, a, b, overflowChecks) ==
    LET over == IF name = "Add" THEN U32AddOverflows(a, b) ELSE U32MulOverflows(a, b)
    IN  IF over /\ overflowChecks THEN [panic |-> TRUE, over |-> TRUE, val |-> U32(0)]
        ELSE [panic |-> FALSE, over |-> over,
              val |-> IF name = "Add" THEN U32WrappingAdd(a, b) ELSE U32WrappingMul(a, b)]

\* `cell as usize` indexes the array: program.get(idx) is Some.
Day2InBounds(cells, idx) == idx.hi < Half \div 2 /\ idx.hi * Half + idx.lo < Len(cells)

\* program.get(idx) for an operand taken from a cell.
Day2Get(cells, idx) ==
    IF Day2InBounds(cells, idx) THEN Ok(cells[idx.hi * Half + idx.lo + 1])
    ELSE Err("OutOfBounds")

\* CPUOp::next_pc_offset of day 2
Day2NextPcOffset(name) == IF name \in {"Add", "Mul"} THEN 4 ELSE 0

\* fetch_op of day 2: the whole cell is the opcode.
Day2FetchOp(cpu) ==
    IF ~(cpu.pc < Len(cpu.program)) THEN Err("OutOfBounds")
    ELSE LET opcode == cpu.program[cpu.pc + 1]
         IN  IF opcode = U32(1) \/ opcode = U32(2)
             THEN IF ~(cpu.pc + 1 < Len(cpu.program)) THEN Err("OutOfBounds")
                  ELSE IF ~(cpu.pc + 2 < Len(cpu.program)) THEN Err("OutOfBounds")
                  ELSE IF ~(cpu.pc + 3 < Len(cpu.program)) THEN Err("OutOfBounds")
                  ELSE Ok([name |-> IF opcode = U32(1) THEN "Add" ELSE "Mul",
                           src1 |-> cpu.program[cpu.pc + 2],
                           src2 |-> cpu.program[cpu.pc + 3],
                           dst |-> cpu.program[cpu.pc + 4]])
             ELSE IF opcode = U32(99) THEN Ok([name |-> "Halt"])
             ELSE Ok([name |-> "Undefined"])

\* What a day-2 step hands back: result, machine, and whether an
\* arithmetic result was wrapped.
Day2Outcome(res, cpu, over) == [res |-> res, cpu |-> cpu, over |-> over]

\* execute_op of day 2 that writes the destination before it reads.
Day2ExecuteOpClearsFirst(cpu, op, overflowChecks) ==
    IF op.name \in {"Add", "Mul"}
    THEN IF ~Day2InBounds(cpu.program, op.dst) THEN Day2Outcome("OutOfBounds", cpu, FALSE)
         ELSE LET cleared == [cpu.program EXCEPT ![op.dst.hi * Half + op.dst.lo + 1] = U32(0)]
                  v1 == Day2Get(cleared, op.src1)
                  v2 == Day2Get(cleared, op.src2)
              IN  IF ~v1.ok THEN Day2Outcome(v1.kind, cpu, FALSE)
                  ELSE IF ~v2.ok THEN Day2Outcome(v2.kind, cpu, FALSE)
                  ELSE Day2Outcome("Ok",
                         [cpu EXCEPT !.program[op.dst.hi * Half + op.dst.lo + 1] =
                                        U32Arith(op.name, v1.val, v2.val, FALSE).val,
                                     !.pc = @ + Day2NextPcOffset(op.name)],
                         FALSE)
    ELSE IF op.name = "Halt"
    THEN Day2Outcome("Ok", [cpu EXCEPT !.state = "Halted"], FALSE)
    ELSE Day2Outcome("InvalidOpcode", cpu, FALSE)

\* execute_op of day 2
Day2ExecuteOp(cpu, op, overflowChecks) ==
    IF op.name \in {"Add", "Mul"}
    THEN LET v1 == Day2Get(cpu.program, op.src1)
             v2 == Day2Get(cpu.program, op.src2)
         IN  IF ~v1.ok THEN Day2Outcome(v1.kind, cpu, FALSE)
             ELSE IF ~v2.ok THEN Day2Outcome(v2.kind, cpu, FALSE)
             ELSE IF ~Day2InBounds(cpu.program, op.dst)
                  THEN Day2Outcome("OutOfBounds", cpu, FALSE)
             ELSE LET r == U32Arith(op.name, v1.val, v2.val, overflowChecks)
                  IN  IF r.panic THEN Day2Outcome("Panic", cpu, TRUE)
                      ELSE Day2Outcome("Ok",
                             [cpu EXCEPT !.program[op.dst.hi * Half + op.dst.lo + 1] = r.val,
                                         !.pc = @ + Day2NextPcOffset(op.name)],
                             r.over)
    ELSE IF op.name = "Halt"
    THEN Day2Outcome("Ok", [cpu EXCEPT !.state = "Halted",
                                       !.pc = @ + Day2NextPcOffset(op.name)], FALSE)
    ELSE Day2Outcome("InvalidOpcode", cpu, FALSE)

\* step() of day 2: fetch, execute, Ok(self.state).
Day2StepCpu(cpu, overflowChecks) ==
    LET op == Day2FetchOp(cpu)
    IN  IF ~op.ok THEN Day2Outcome(op.kind, cpu, FALSE)
        ELSE LET out == Day2ExecuteOp(cpu, op.val, overflowChecks)
             IN  IF out.res = "Ok" THEN [out EXCEPT !.res = out.cpu.state] ELSE out

\* The outcomes of one day-2 step over the builds: overflow checks on
\* (development profile) or off (release profile).
Day2StepOutcomes(cpu) == {Day2StepCpu(cpu, overflowChecks) : overflowChecks \in BOOLEAN}

\* The day-2 machine's fields.
Day2Cpu == [program |-> d2.program, state |-> d2.state, pc |-> d2.pc]

\* IntcodeCPU::new of day 2, about to enter run(); trace records the
\* machine after each step, overflowed whether a result was ever wrapped.
Day2New(cells) ==
    [present |-> TRUE, program |-> cells, state |-> "Running", pc |-> 0,
     result |-> "None", run |-> "Looping",
     prev |-> [program |-> cells, state |-> "Running", pc |-> 0],
     trace |-> <<[program |-> cells, state |-> "Running", pc |-> 0]>>,
     overflowed |-> FALSE]

(* ---------------------------------------------------------------------- *)
(* run(): loop { if let Halted = self.step()? { return Ok(()) } }          *)
(* ---------------------------------------------------------------------- *)
\* run() that returns Ok after any successful step.
RunAfterReturnsEarly(res) == IF res \in {"Halted", "Running"} THEN "Ok" ELSE res

\* Where run() stands after a step that handed back res: `?` returns the
\* fault, Halted returns Ok, Running goes round the loop; a panic unwinds.
RunAfter(res) ==
    IF res = "Halted" THEN "Ok" ELSE IF res = "Running" THEN "Looping" ELSE res

\* The step out of cpu was a JNZ/JZ whose predicate held.
JumpTaken(cpu, out) ==
    LET op == FetchOp(cpu.program, cpu.pc)
    IN  /\ out.res = "Running"
        /\ op.ok
        /\ op.val.name \in {"JumpZero", "JumpNonZero"}
        /\ (op.val.name = "JumpZero") = (GetOperandValue(cpu.program, op.val.a).val = 0)

\* Both machines are constructed on the same cells (the day-2 machine
\* only where every cell is a u32) and run() is called on each.
InitRun ==
    /\ Fresh
    /\ run = "Looping"
    /\ d2 = IF \A i \in 1..Len(program) : program[i] >= 0
            THEN Day2New(U32Cells(program)) ELSE NoDay2
    /\ calls2 = 0
    /\ search = NoSearch

\* One turn of the day-5 run() loop.  Runs that have taken a jump are
\* followed for MaxSteps turns; runs that have not are followed to the end.
RunStep ==
    /\ run = "Looping"
    /\ calls < MaxSteps \/ ~jumped
    /\ \E out \in StepOutcomes(Cpu, Console) :
        /\ StepCall(out)
        /\ run' = RunAfter(out.res)
        /\ jumped' = (jumped \/ JumpTaken(Cpu, out))
    /\ calls' = calls + 1
    /\ UNCHANGED <<d2, calls2, search>>

\* One turn of the day-2 run() loop.
Run2Step ==
    /\ d2.present
    /\ d2.run = "Looping"
    /\ \E out \in Day2StepOutcomes(Day2Cpu) :
        d2' = [d2 EXCEPT !.program = out.cpu.program,
                         !.state = out.cpu.state,
                         !.pc = out.cpu.pc,
                         !.result = out.res,
                         !.run = RunAfter(out.res),
                         !.prev = Day2Cpu,
                         !.trace = Append(@, out.cpu),
                         !.overflowed = @ \/ out.over]
    /\ calls2' = calls2 + 1
    /\ UNCHANGED <<program, state, pc, stdin, stdout, result, prev, faulted, steps,
                   hostInput, received, loaded, run, calls, jumped, search>>

RunNext == RunStep \/ Run2Step

\* The day-5 run() is in its loop and makes one more call of step(): the
\* RunStep steps, told by the call counter alone.
Turn == run = "Looping" /\ (calls < MaxSteps \/ ~jumped) /\ calls' = calls + 1

\* The day-2 run() makes one more call of step(): the Run2Step steps.
Day2Turn == d2.present /\ d2.run = "Looping" /\ calls2' = calls2 + 1

\* A run() that is in its loop goes on to its next turn: nothing but the
\* machine's own step stands between two turns of `loop { .. }`.
RunSpec == InitRun /\ [][RunNext]_vars /\ WF_calls(Turn) /\ WF_calls2(Day2Turn)

(* ---------------------------------------------------------------------- *)
(* part2 of day 2 (src/bin/day02/main.rs): the search over noun and verb   *)
(* ---------------------------------------------------------------------- *)
PART2_NOUN_MIN == 0
PART2_NOUN_MAX == 100
PART2_VERB_MIN == 0
PART2_VERB_MAX == 100
PART2_TARGET_OUTPUT == U32(19690720)

\* set_inputs on a slice of at least three cells: state[1] = noun;
\* state[2] = verb.
SetInputs(cells, noun, verb) == [cells EXCEPT ![2] = U32(noun), ![3] = U32(verb)]

\* The cells part2 may be started on.
SearchInputs ==
    { U32Cells(<<1, 0, 0, 0, 99>>),
      U32Cells(<<1, 0, 0, 4, 99>>),
      U32Cells(<<1, 0, 0, 0, 99, 19690719>>),
      U32Cells(<<2, 0, 0, 0, 99, 19690720>>),
      U32Cells(<<2, 0, 0, 0, 99, 65536>>),
      U32Cells(<<99, 0>>) }

\* part2 has loaded its program and is about to enter the loops; no
\* day-5 machine is involved.
InitSearch ==
    /\ program = <<>>
    /\ state = "Running"
    /\ pc = Index(0)
    /\ stdin = <<>>
    /\ stdout = <<>>
    /\ result = "None"
    /\ prev = Snapshot
    /\ faulted = FALSE
    /\ steps = 0
    /\ hostInput = <<>>
    /\ received = <<>>
    /\ loaded = <<>>
    /\ run = "NotCalled"
    /\ calls = 0
    /\ jumped = FALSE
    /\ d2 = NoDay2
    /\ calls2 = 0
    /\ \E cells \in SearchInputs :
        search = [NoSearch EXCEPT !.status = "Next", !.input = cells,
                                  !.noun = PART2_NOUN_MIN, !.verb = PART2_VERB_MIN]

\* The day-5 machine's variables, which part2 does not touch.
Day5Vars == <<program, state, pc, stdin, stdout, result, prev, faulted, steps,
              hostInput, received, loaded, run, calls, jumped>>

\* The head of the loop body that builds the machine from what the last
\* run left behind instead of a clone of the loaded program.
Part2TryReusesCells ==
    /\ search.status = "Next"
    /\ IF Len(search.input) < 3
       THEN /\ search' = [search EXCEPT !.status = "Panic", !.exit = 101]
            /\ UNCHANGED <<d2, calls2>>
       ELSE /\ d2' = Day2New(SetInputs(IF d2.present THEN d2.program ELSE search.input,
                                       search.noun, search.verb))
            /\ calls2' = 0
            /\ search' = [search EXCEPT !.status = "Running", !.tried = @ + 1]
    /\ UNCHANGED Day5Vars

\* The head of the loop body: program_ref.clone(), set_inputs,
\* IntcodeCPU::new.  set_inputs indexes cells 1 and 2 and panics on a
\* shorter program.
Part2Try ==
    /\ search.status = "Next"
    /\ IF Len(search.input) < 3
       THEN /\ search' = [search EXCEPT !.status = "Panic", !.exit = 101]
            /\ UNCHANGED <<d2, calls2>>
       ELSE /\ d2' = Day2New(SetInputs(search.input, search.noun, search.verb))
            /\ calls2' = 0
            /\ search' = [search EXCEPT !.status = "Running", !.tried = @ + 1]
    /\ UNCHANGED Day5Vars

\* The for loops go on to the next pair, or fall out of the loops to
\* println!(ERROR ..) and std::process::exit(2).
NextPair(sr) ==
    IF sr.verb + 1 < PART2_VERB_MAX THEN [sr EXCEPT !.status = "Next", !.verb = @ + 1]
    ELSE IF sr.noun + 1 < PART2_NOUN_MAX
         THEN [sr EXCEPT !.status = "Next", !.noun = @ + 1, !.verb = PART2_VERB_MIN]
    ELSE [sr EXCEPT !.status = "NotFound", !.exit = 2]

\* The pair just run ended Ok with the target in cell 0.
Matched == d2.run = "Ok" /\ d2.program[1] = PART2_TARGET_OUTPUT

\* The rest of the loop body, after cpu.run() has come back: a fault is
\* logged and the pair skipped, a match is reported and part2 returns,
\* anything else goes on; a panic inside run() ends the process.
\* matches records the pairs whose run ended Ok with the target.
Part2Check ==
    /\ search.status = "Running"
    /\ d2.run # "Looping"
    /\ \E sr \in {[search EXCEPT !.matches = IF Matched
                                             THEN @ \cup {<<search.noun, search.verb>>}
                                             ELSE @]} :
        search' =
            IF d2.run = "Panic" THEN [sr EXCEPT !.status = "Panic", !.exit = 101]
            ELSE IF d2.run \in FaultKinds
            THEN NextPair([sr EXCEPT !.skipped = @ + 1,
                                     !.warning = [kind |-> d2.run, pc |-> d2.pc,
                                                  noun |-> search.noun,
                                                  verb |-> search.verb]])
            ELSE IF d2.program[1] = PART2_TARGET_OUTPUT
            THEN [sr EXCEPT !.status = "Found", !.exit = 0,
                            !.answer = 100 * search.noun + search.verb]
            ELSE NextPair(sr)
    /\ UNCHANGED <<d2, calls2>>
    /\ UNCHANGED Day5Vars

SearchNext == Part2Try \/ Run2Step \/ Part2Check

\* part2 keeps going: the loop body is entered, run() makes its turns,
\* and the result is looked at.
SearchSpec ==
    /\ InitSearch
    /\ [][SearchNext]_vars
    /\ WF_vars(Part2Try)
    /\ WF_calls2(Day2Turn)
    /\ WF_vars(Part2Check)

(* ---------------------------------------------------------------------- *)
(* Vocabulary of the properties                                            *)
(* ---------------------------------------------------------------------- *)
\* A step() has been called: prev, result describe that call.
Stepped == result # "None"

PrevCpu == [program |-> prev.program, state |-> prev.state, pc |-> prev.pc]

MachineUnchanged == program = prev.program /\ pc = prev.pc /\ state = prev.state

ConsoleUnchanged == stdin = prev.stdin /\ stdout = prev.stdout

\* What the last step fetched (a CPUResult<CPUOp>).
PrevFetch == FetchOp(prev.program, prev.pc)

PrevAccesses == StepAccesses(PrevCpu)

(* ---------------------------------------------------------------------- *)
(* C1  Bounds safety                                                       *)
(* ---------------------------------------------------------------------- *)
\* C1: the cell array keeps its length through every step; a step that passes
\* an index outside [0, length) to a cell access (opcode fetch, operand-cell
\* read, position-mode source read, destination write) returns OutOfBounds,
\* a step that returns anything else accessed only indices inside the
\* array, and OutOfBounds is returned for no other reason.
C1_BoundsSafety ==
    /\ Len(program) = Len(prev.program)
    /\ Stepped =>
        \A acc \in {PrevAccesses} :
            /\ (\E i \in 1..Len(acc) : ~InBounds(prev.program, acc[i]))
                  <=> result = "OutOfBounds"
            /\ result # "OutOfBounds" =>
                  \A i \in 1..Len(acc) :
                      ~acc[i].wrapped /\ 0 <= acc[i].n /\ acc[i].n < Len(prev.program)

\* An execute-stage destination write outside the array was refused.
C1_Witness ==
    /\ result = "OutOfBounds"
    /\ PrevFetch.ok
    /\ PrevFetch.val.name = "Add"
    /\ ~InBounds(prev.program, PrevFetch.val.dst)
    /\ program = prev.program

(* ---------------------------------------------------------------------- *)
(* C2  PC discipline                                                       *)
(* ---------------------------------------------------------------------- *)
\* C2 as stated: whenever the machine is Running between two steps,
\* 0 <= pc < length.
C2_AsStated == state = "Running" => InBounds(program, pc)

\* C2 amended: the machine starts with pc = 0 inside a non-empty program;
\* between steps a Running machine's pc may lie outside [0, length) (after
\* a fall-through past the last cell or a taken jump to an out-of-range
\* target), and the bound is enforced at the next fetch: a step taken with
\* pc outside [0, length) returns OutOfBounds and leaves cells, pc and state
\* as they were, so every step that returns Running or Halted fetched its
\* opcode at a pc with 0 <= pc < length.
C2_PcCheckedAtFetch ==
    /\ ~Stepped => InBounds(program, pc) /\ pc.n = 0
    /\ Stepped /\ ~InBounds(prev.program, prev.pc) =>
          result = "OutOfBounds" /\ MachineUnchanged
    /\ result \in {"Running", "Halted"} =>
          ~prev.pc.wrapped /\ 0 <= prev.pc.n /\ prev.pc.n < Len(prev.program)

\* A Running machine was stepped with its pc past the end and refused.
C2_Witness ==
    /\ Stepped
    /\ prev.state = "Running"
    /\ prev.result = "Running"
    /\ ~InBounds(prev.program, prev.pc)
    /\ result = "OutOfBounds"

(* ---------------------------------------------------------------------- *)
(* C3  Halt finality                                                       *)
(* ---------------------------------------------------------------------- *)
\* C3: a step taken after a step has returned Halted returns Halted again
\* and changes neither the cells, the pc, the state, the remaining input
\* nor the output.
C3_HaltFinality ==
    (prev.result = "Halted" \/ prev.state = "Halted") =>
        /\ result = "Halted"
        /\ state = "Halted"
        /\ MachineUnchanged
        /\ ConsoleUnchanged

\* A halted machine, with input still waiting, was stepped again.
C3_Witness ==
    /\ prev.result = "Halted"
    /\ result = "Halted"
    /\ prev.stdin # <<>>
    /\ Len(prev.program) > prev.pc.n + 1

(* ---------------------------------------------------------------------- *)
(* C4  Running -> Halted                                                   *)
(* ---------------------------------------------------------------------- *)
\* The step fetched the halt instruction: fetch_op returned Halt.
PrevFetchedHalt == PrevFetch.ok /\ PrevFetch.val.name = "Halt"

\* The opcode cell the last step read (only where prev.pc is inside).
PrevOpcodeCell == prev.program[prev.pc.n + 1]

\* C4: the machine starts Running with pc = 0; a step takes the state from
\* Running to Halted if and only if it fetched and executed the halt
\* instruction, whose opcode digits are 99 (for an opcode cell of at most
\* five digits: exactly when they are); the state is only ever Running or
\* Halted and never goes from Halted back to Running.
C4_HaltTransition ==
    /\ state \in {"Running", "Halted"}
    /\ ~Stepped => state = "Running" /\ pc = Index(0)
    /\ prev.state = "Halted" => state = "Halted"
    /\ Stepped /\ prev.state = "Running" =>
        /\ state = "Halted" <=> PrevFetchedHalt
        /\ PrevFetchedHalt => PrevOpcodeCell >= 0 /\ PrevOpcodeCell % 100 = 99
        /\ (/\ InBounds(prev.program, prev.pc)
            /\ PrevOpcodeCell >= 0
            /\ PrevOpcodeCell < 100000
            /\ PrevOpcodeCell % 100 = 99) => state = "Halted" /\ result = "Halted"

\* The halt instruction, written with mode digits, took a Running machine
\* to Halted.
C4_Witness ==
    /\ Stepped
    /\ prev.state = "Running"
    /\ state = "Halted"
    /\ PrevOpcodeCell = 1199
    /\ result = "Halted"

(* ---------------------------------------------------------------------- *)
(* C5  A faulting step changes nothing in the machine                      *)
(* ---------------------------------------------------------------------- *)
\* C5: a step that returns a fault (InvalidOpcode, InvalidOperand,
\* InvalidInput or OutOfBounds, from fetch or from execute) leaves the cells
\* and the pc as they were and the state Running.
C5_FaultLeavesMachine ==
    result \in FaultKinds =>
        /\ program = prev.program
        /\ pc = prev.pc
        /\ state = prev.state
        /\ state = "Running"

\* An execute-stage fault: INPUT decoded, its destination inside the
\* array, and the host's line did not parse.
C5_Witness ==
    /\ result = "InvalidInput"
    /\ PrevFetch.ok
    /\ PrevFetch.val.name = "Input"
    /\ prev.stdin # <<>>
    /\ MachineUnchanged

(* ---------------------------------------------------------------------- *)
(* C6  Stepping a machine that has faulted                                 *)
(* ---------------------------------------------------------------------- *)
\* C6 as stated: once a step has returned a fault, no later step succeeds
\* or changes the cells, the pc or the state.
C6_AsStated == faulted => result \in FaultKinds /\ MachineUnchanged

\* The faults that depend on cells and pc alone.
StickyFaults == {"InvalidOpcode", "InvalidOperand", "OutOfBounds"}

\* C6 amended: the machine records no fault, so a later step decodes the
\* same cells at the same pc again.  After a step has returned
\* InvalidOpcode, InvalidOperand or OutOfBounds, every later step returns
\* that same fault and changes neither cells, pc, state nor the console.
\* After InvalidInput the machine is unchanged too, but the failed INPUT
\* has used up a line of input, and the next step executes the same INPUT
\* again: it returns InvalidInput again or, when the next line parses,
\* succeeds (Running), stores the value and advances the pc by 2.
C6_FaultsRepeat ==
    /\ prev.result \in StickyFaults =>
          result = prev.result /\ MachineUnchanged /\ ConsoleUnchanged
    /\ prev.result = "InvalidInput" =>
        /\ result \in {"InvalidInput", "Running"}
        /\ PrevFetch.ok /\ PrevFetch.val.name = "Input"
        /\ result = "Running" =>
              /\ pc = UsizeAdd(prev.pc, 2)
              /\ stdin = Tail(prev.stdin)
              /\ state = "Running"

\* A machine that had returned OutOfBounds was stepped again.
C6_Witness ==
    /\ faulted
    /\ prev.result = "OutOfBounds"
    /\ result = "OutOfBounds"
    /\ MachineUnchanged

(* ---------------------------------------------------------------------- *)
(* C8  Instruction decode                                                  *)
(* ---------------------------------------------------------------------- *)
\* The decimal digit of v at the place 10^k, as a character.
DigitAt(v, k) == DigitChars[((v \div (10 ^ k)) % 10) + 1]

\* C8 as stated: for every non-negative opcode cell v, of any number of
\* digits, the opcode dispatched on is v mod 100 and the modes of operands
\* 1, 2, 3 are the hundreds, thousands and ten-thousands digits of v; in
\* particular a cell whose low two digits are 99 halts the machine.
C8_AsStated ==
    (Stepped /\ prev.state = "Running" /\ InBounds(prev.program, prev.pc)
        /\ PrevOpcodeCell >= 0) =>
        \A d \in {Decode(PrevOpcodeCell)} :
            /\ d.op = <<DigitAt(PrevOpcodeCell, 1), DigitAt(PrevOpcodeCell, 0)>>
            /\ d.modes = <<DigitAt(PrevOpcodeCell, 2), DigitAt(PrevOpcodeCell, 3),
                           DigitAt(PrevOpcodeCell, 4)>>
            /\ PrevOpcodeCell % 100 = 99 => result = "Halted"

(* ---------------------------------------------------------------------- *)
(* C9  INPUT                                                               *)
(* ---------------------------------------------------------------------- *)
\* The last step was taken with an INPUT instruction (opcode 03) at pc.
PrevAtInput ==
    /\ Stepped
    /\ prev.state = "Running"
    /\ InBounds(prev.program, prev.pc)
    /\ PrevOpcodeCell >= 0
    /\ PrevOpcodeCell < 100000
    /\ PrevOpcodeCell % 100 = 3

\* What the host had ready for the last step, parsed.
PrevLine == ParseI32(Trim(ReadLine(prev.stdin).text))

PrevLineParses == prev.stdin # <<>> /\ ReadLine(prev.stdin).ok /\ PrevLine.ok

\* C9 as stated: INPUT takes its destination from the cell at pc + 1 and
\* needs no cell beyond it: with that cell inside the array, holding an
\* index inside the array, and the host delivering the integer x, the step
\* succeeds; and a successful INPUT step leaves x in the cell indexed by
\* the cell at pc + 1, every other cell as it was, and pc advanced by 2.
C9_AsStated ==
    PrevAtInput =>
        /\ (/\ InBounds(prev.program, UsizeAdd(prev.pc, 1))
            /\ InBounds(prev.program, AsUsize(prev.program[prev.pc.n + 2]))
            /\ PrevLineParses) => result = "Running"
        /\ result = "Running" =>
            /\ InBounds(prev.program, AsUsize(prev.program[prev.pc.n + 2]))
            /\ program = [prev.program EXCEPT ![prev.program[prev.pc.n + 2] + 1] = PrevLine.val]
            /\ pc = UsizeAdd(prev.pc, 2)

(* ---------------------------------------------------------------------- *)
(* C10  Mode coverage of ADD, MUL, LT, EQ                                  *)
(* ---------------------------------------------------------------------- *)
\* The last step succeeded on ADD (1), MUL (2), LT (7) or EQ (8).
PrevArithSucceeded ==
    /\ Stepped
    /\ result = "Running"
    /\ prev.state = "Running"
    /\ InBounds(prev.program, prev.pc)
    /\ PrevOpcodeCell >= 0
    /\ PrevOpcodeCell % 100 \in {1, 2, 7, 8}

\* The raw operand cell i of the last step, its mode digit, and the value
\* it stands for in the cells as they were before the step.
PrevRaw(i) == prev.program[prev.pc.n + 1 + i]

PrevModeDigit(i) == (PrevOpcodeCell \div (10 ^ (i + 1))) % 10

PrevSource(i) ==
    IF PrevModeDigit(i) = 1 THEN PrevRaw(i) ELSE prev.program[PrevRaw(i) + 1]

\* op(v1, v2) in 32-bit arithmetic.
Apply(opcode, v1, v2) ==
    IF opcode = 1 THEN WrappingAdd(v1, v2)
    ELSE IF opcode = 2 THEN (IF MulOverflows(v1, v2) THEN WrappingMul(v1, v2) ELSE v1 * v2)
    ELSE IF opcode = 7 THEN (IF v1 < v2 THEN 1 ELSE 0)
    ELSE (IF v1 = v2 THEN 1 ELSE 0)

\* C10: a successful ADD, MUL, LT or EQ step, in any of the four
\* position/immediate combinations of its two source mode digits, stores
\* op(v1, v2) in the cell indexed by the raw third operand, where vi is the
\* raw operand cell pc+i itself in immediate mode and the pre-step cell it
\* indexes in position mode; all other cells keep their values.
C10_ModeCoverage ==
    PrevArithSucceeded =>
        /\ \A i \in {1, 2} :
              /\ PrevModeDigit(i) \in {0, 1}
              /\ PrevModeDigit(i) = 0 => InBounds(prev.program, AsUsize(PrevRaw(i)))
        /\ InBounds(prev.program, AsUsize(PrevRaw(3)))
        /\ program = [prev.program EXCEPT ![PrevRaw(3) + 1] =
                        Apply(PrevOpcodeCell % 100, PrevSource(1), PrevSource(2))]

\* MUL with a position-mode first source and an immediate second source
\* stored the product: 1002,4,3,4,33 became 1002,4,3,4,99.
C10_Witness ==
    /\ PrevArithSucceeded
    /\ PrevOpcodeCell = 1002
    /\ PrevRaw(1) = 4 /\ PrevRaw(2) = 3 /\ PrevRaw(3) = 4
    /\ prev.program[5] = 33
    /\ program[5] = 99

(* ---------------------------------------------------------------------- *)
(* C11  LT and EQ                                                          *)
(* ---------------------------------------------------------------------- *)
\* The last step succeeded on LT (7) or EQ (8).
PrevCompareSucceeded == PrevArithSucceeded /\ PrevOpcodeCell % 100 \in {7, 8}

RECURSIVE OutputValues(_)
\* The integers OUTPUT has printed, in order (the prompts left out).
OutputValues(out) ==
    IF out = <<>> THEN <<>>
    ELSE IF Head(out).kind = "Output"
         THEN <<Head(out).val>> \o OutputValues(Tail(out))
         ELSE OutputValues(Tail(out))

\* The program "is the input equal to 8?" (cell 9 is its scratch cell).
EqualsEight == <<3, 9, 8, 9, 10, 9, 4, 9, 99, -1, 8>>

RunsEqualsEight ==
    /\ Len(program) = Len(EqualsEight)
    /\ \A i \in (1..Len(EqualsEight)) \ {10} : program[i] = EqualsEight[i]

\* C11: a successful LT or EQ step leaves 1 or 0 in the destination cell:
\* 1 exactly when the comparison of the two resolved source values holds
\* (cmp1 < cmp2 for LT, cmp1 = cmp2 for EQ, as signed numbers: a negative
\* value is below every non-negative one), 0 otherwise; and the program
\* 3,9,8,9,10,9,4,9,99,-1,8, run to its halt, has printed 1 when the
\* integer it received was 8 and 0 when it was another one.
C11_CompareWrites ==
    /\ PrevCompareSucceeded =>
        /\ \A i \in {1, 2} :
              /\ PrevModeDigit(i) \in {0, 1}
              /\ PrevModeDigit(i) = 0 => InBounds(prev.program, AsUsize(PrevRaw(i)))
        /\ InBounds(prev.program, AsUsize(PrevRaw(3)))
        /\ program[PrevRaw(3) + 1] \in {0, 1}
        /\ program[PrevRaw(3) + 1] = 1 <=>
              IF PrevOpcodeCell % 100 = 7
              THEN PrevSource(1) < PrevSource(2)
              ELSE PrevSource(1) = PrevSource(2)
        /\ (PrevOpcodeCell % 100 = 7 /\ PrevSource(1) < 0 /\ PrevSource(2) >= 0) =>
              program[PrevRaw(3) + 1] = 1
    /\ (RunsEqualsEight /\ state = "Halted") =>
        /\ Len(received) = 1
        /\ OutputValues(stdout) = <<IF received[1] = 8 THEN 1 ELSE 0>>

\* LT on a negative and a non-negative value stored 1.
C11_Witness ==
    /\ PrevCompareSucceeded
    /\ PrevOpcodeCell % 100 = 7
    /\ PrevModeDigit(1) = 1 /\ PrevModeDigit(2) = 1
    /\ PrevRaw(1) < 0 /\ PrevRaw(2) >= 0
    /\ InBounds(prev.program, AsUsize(PrevRaw(3)))
    /\ program[PrevRaw(3) + 1] = 1

(* ---------------------------------------------------------------------- *)
(* C12  JNZ and JZ                                                         *)
(* ---------------------------------------------------------------------- *)
\* The last step succeeded on JNZ (5) or JZ (6).
PrevJumpSucceeded ==
    /\ Stepped
    /\ result = "Running"
    /\ prev.state = "Running"
    /\ InBounds(prev.program, prev.pc)
    /\ PrevOpcodeCell >= 0
    /\ PrevOpcodeCell % 100 \in {5, 6}

\* Its predicate held: cmp # 0 for JNZ, cmp = 0 for JZ.
PrevJumpTaken ==
    IF PrevOpcodeCell % 100 = 5 THEN PrevSource(1) # 0 ELSE PrevSource(1) = 0

\* C12: a successful JNZ/JZ step whose predicate holds leaves pc equal to
\* the resolved target, with no fall-through advance added (a negative
\* target, cast to an index, is the wrapped index 2^64 + target); when the
\* predicate does not hold pc is pc + 3; either way no cell is modified
\* and the state stays Running.
C12_Jumps ==
    PrevJumpSucceeded =>
        /\ \A i \in {1, 2} :
              /\ PrevModeDigit(i) \in {0, 1}
              /\ PrevModeDigit(i) = 0 => InBounds(prev.program, AsUsize(PrevRaw(i)))
        /\ PrevJumpTaken =>
              /\ pc.n = PrevSource(2)
              /\ pc.wrapped <=> PrevSource(2) < 0
        /\ ~PrevJumpTaken =>
              /\ pc.n = prev.pc.n + 3
              /\ ~pc.wrapped
        /\ program = prev.program
        /\ state = "Running"

\* A JNZ on a non-zero value went to a target that is not its fall-through.
C12_Witness ==
    /\ PrevJumpSucceeded
    /\ PrevOpcodeCell % 100 = 5
    /\ PrevJumpTaken
    /\ PrevSource(2) >= 0
    /\ pc = Index(PrevSource(2))
    /\ pc # UsizeAdd(prev.pc, 3)

(* ---------------------------------------------------------------------- *)
(* C13  Fall-through advance of the pc                                     *)
(* ---------------------------------------------------------------------- *)
\* The advance the opcode table gives each opcode.
FallThrough(opcode) ==
    IF opcode \in {1, 2, 7, 8} THEN 4
    ELSE IF opcode \in {3, 4} THEN 2
    ELSE IF opcode \in {5, 6} THEN 3
    ELSE 0

\* C13: a successful step executed one of the opcodes 1..8, 99, and unless
\* it is a taken jump it moved pc by the amount of its opcode: 4 for ADD,
\* MUL, LT, EQ, 2 for INPUT and OUTPUT, 3 for a JNZ/JZ not taken, 0 for
\* HALT; a step that returns a fault leaves pc where it was.
C13_FallThrough ==
    /\ (Stepped /\ result \in {"Running", "Halted"}) =>
        /\ InBounds(prev.program, prev.pc)
        /\ PrevOpcodeCell >= 0
        /\ PrevOpcodeCell % 100 \in (1..8) \cup {99}
        /\ (PrevOpcodeCell % 100 \in {5, 6} /\ PrevJumpTaken)
              \/ (/\ pc.n = prev.pc.n + FallThrough(PrevOpcodeCell % 100)
                  /\ ~pc.wrapped)
        /\ result = "Halted" => pc = prev.pc
    /\ result \in FaultKinds => pc = prev.pc

\* A JZ on a non-zero value fell through to pc + 3.
C13_Witness ==
    /\ PrevJumpSucceeded
    /\ PrevOpcodeCell % 100 = 6
    /\ ~PrevJumpTaken
    /\ pc = UsizeAdd(prev.pc, 3)

(* ---------------------------------------------------------------------- *)
(* C14  The destination's mode digit                                       *)
(* ---------------------------------------------------------------------- *)
\* The last step was taken on an opcode cell of at most five digits.
PrevAtInstruction ==
    /\ Stepped
    /\ prev.state = "Running"
    /\ InBounds(prev.program, prev.pc)
    /\ PrevOpcodeCell >= 0
    /\ PrevOpcodeCell < 100000

\* The cells before the last step with the ten-thousands digit of the
\* opcode cell changed from 1 to 0 or from 0 to 1.
PrevTwinProgram ==
    [prev.program EXCEPT ![prev.pc.n + 1] =
        IF PrevModeDigit(3) = 1 THEN @ - 10000 ELSE @ + 10000]

PrevConsole == [stdin |-> prev.stdin, stdout |-> prev.stdout]

\* out is what the last step did, up to the opcode cell's own digit.
SameButOpcodeCell(out) ==
    /\ out.res = result
    /\ out.cpu.pc = pc
    /\ out.cpu.state = state
    /\ out.io = Console
    /\ Len(out.cpu.program) = Len(program)
    /\ \A i \in 1..Len(program) :
          (i # prev.pc.n + 1 \/ program[i] # prev.program[i])
              => out.cpu.program[i] = program[i]

\* C14: an ADD, MUL, LT or EQ step writes the cell whose index is the raw
\* value of the operand cell at pc+3 whatever the ten-thousands digit of
\* the opcode cell is: with the digit 1 a successful step stores op(v1, v2)
\* there and changes no other cell, and the step taken on the same cells
\* with the digit changed (0 for 1, 1 for 0) returns the same result and
\* leaves the same pc, the same console and the same cells (the opcode
\* cell itself not being one of the sources).
C14_DstModeIgnored ==
    (PrevAtInstruction /\ PrevOpcodeCell % 100 \in {1, 2, 7, 8}
        /\ PrevModeDigit(3) \in {0, 1}) =>
        /\ (result = "Running" /\ PrevModeDigit(3) = 1) =>
            /\ \A i \in {1, 2} :
                  /\ PrevModeDigit(i) \in {0, 1}
                  /\ PrevModeDigit(i) = 0 => InBounds(prev.program, AsUsize(PrevRaw(i)))
            /\ InBounds(prev.program, AsUsize(PrevRaw(3)))
            /\ program[PrevRaw(3) + 1] =
                  Apply(PrevOpcodeCell % 100, PrevSource(1), PrevSource(2))
            /\ \A i \in 1..Len(program) :
                  i # PrevRaw(3) + 1 => program[i] = prev.program[i]
        /\ (\A i \in {1, 2} :
               (PrevModeDigit(i) = 0 /\ InBounds(prev.program, UsizeAdd(prev.pc, i)))
                   => PrevRaw(i) # prev.pc.n) =>
              \E out \in StepOutcomes([PrevCpu EXCEPT !.program = PrevTwinProgram],
                                      PrevConsole) : SameButOpcodeCell(out)

\* An ADD whose destination digit is 1 wrote the cell its third operand
\* names.
C14_Witness ==
    /\ PrevArithSucceeded
    /\ PrevOpcodeCell < 100000
    /\ PrevOpcodeCell % 100 = 1
    /\ PrevModeDigit(3) = 1
    /\ InBounds(prev.program, AsUsize(PrevRaw(3)))
    /\ program[PrevRaw(3) + 1] # prev.program[PrevRaw(3) + 1]

(* ---------------------------------------------------------------------- *)
(* C15  A write operand marked immediate                                   *)
(* ---------------------------------------------------------------------- *)
\* The last step was taken on ADD, MUL, LT, EQ with the destination's mode
\* digit (ten-thousands) 1, or on INPUT with its mode digit (hundreds) 1.
PrevWritesToImmediate ==
    /\ PrevAtInstruction
    /\ \/ PrevOpcodeCell % 100 \in {1, 2, 7, 8} /\ PrevModeDigit(3) = 1
       \/ PrevOpcodeCell % 100 = 3 /\ PrevModeDigit(1) = 1

\* C15 as stated: such a step returns a fault and writes nothing.
C15_AsStated ==
    PrevWritesToImmediate =>
        /\ result \in FaultKinds
        /\ program = prev.program

\* The cells before the last step with the write operand's mode digit 0.
PrevWriteDigitCleared ==
    [prev.program EXCEPT ![prev.pc.n + 1] =
        IF PrevOpcodeCell % 100 = 3 THEN @ - 100 ELSE @ - 10000]

\* C15 amended: the decoder does not look at the mode digit of a write
\* operand.  A step fetching ADD, MUL, LT, EQ with the destination digit 1,
\* or INPUT with its mode digit 1, decodes the very instruction it decodes
\* with that digit 0 (same operands, same destination index); the fetch
\* faults only as it does with the digit 0: OutOfBounds for an operand cell
\* outside the array, InvalidOperand for a source digit other than 0 and
\* 1; and a step that returns Running has stored its result.
C15_WriteDigitNotChecked ==
    PrevWritesToImmediate =>
        \A f \in {PrevFetch} :
            /\ f = FetchOp(PrevWriteDigitCleared, prev.pc)
            /\ ~f.ok =>
                \/ /\ f.kind = "OutOfBounds"
                   /\ \E k \in 1..3 : ~InBounds(prev.program, UsizeAdd(prev.pc, k))
                \/ /\ f.kind = "InvalidOperand"
                   /\ PrevOpcodeCell % 100 # 3
                   /\ \E i \in {1, 2} : PrevModeDigit(i) \notin {0, 1}
            /\ (f.ok /\ result = "Running") =>
                /\ InBounds(prev.program, f.val.dst)
                /\ \A i \in 1..Len(program) :
                      i # f.val.dst.n + 1 => program[i] = prev.program[i]
                /\ PrevOpcodeCell % 100 = 3 =>
                      /\ received # <<>>
                      /\ program[f.val.dst.n + 1] = received[Len(received)]

\* An INPUT written with mode digit 1 was decoded and stored the host's
\* integer.
C15_Witness ==
    /\ PrevWritesToImmediate
    /\ PrevOpcodeCell = 103
    /\ result = "Running"
    /\ PrevFetch.ok
    /\ received # <<>>
    /\ program[PrevFetch.val.dst.n + 1] = received[Len(received)]
    /\ program # prev.program

(* ---------------------------------------------------------------------- *)
(* C16  Operand decoding                                                   *)
(* ---------------------------------------------------------------------- *)
\* The source operand slots of each opcode, and the operand cells its
\* fetch reads.
SourceSlots(opcode) ==
    IF opcode \in {1, 2, 5, 6, 7, 8} THEN {1, 2}
    ELSE IF opcode = 4 THEN {1}
    ELSE {}

CellsRead(opcode) ==
    IF opcode \in {1, 2, 7, 8} THEN {1, 2, 3}
    ELSE IF opcode \in {5, 6} THEN {1, 2}
    ELSE IF opcode = 4 THEN {1}
    ELSE {}

\* The source operand in slot i of a decoded instruction.
SourceOf(op, i) == IF i = 1 THEN op.a ELSE op.b

\* C16: for ADD, MUL, OUTPUT, JNZ, JZ, LT, EQ with all the operand cells
\* the fetch reads inside the array, a source operand with mode digit 0
\* and raw value v is decoded as Position(v) (v cast to an index), with
\* mode digit 1 as Immediate(v), and a source mode digit 2..9 makes the
\* step return InvalidOperand from the fetch, the machine unchanged.
C16_OperandDecoding ==
    (PrevAtInstruction /\ PrevOpcodeCell % 100 \in {1, 2, 4, 5, 6, 7, 8}
        /\ \A k \in CellsRead(PrevOpcodeCell % 100) :
               InBounds(prev.program, UsizeAdd(prev.pc, k))) =>
        \A f \in {PrevFetch} :
            /\ f.ok <=> \A i \in SourceSlots(PrevOpcodeCell % 100) :
                            PrevModeDigit(i) \in {0, 1}
            /\ f.ok => \A i \in SourceSlots(PrevOpcodeCell % 100) :
                  /\ PrevModeDigit(i) = 0 =>
                        SourceOf(f.val, i) = Position(AsUsize(PrevRaw(i)))
                  /\ PrevModeDigit(i) = 1 =>
                        SourceOf(f.val, i) = Immediate(PrevRaw(i))
            /\ ~f.ok =>
                  /\ f.kind = "InvalidOperand"
                  /\ result = "InvalidOperand"
                  /\ MachineUnchanged

\* A JNZ whose second mode digit is 2, all its operand cells inside the
\* array, returned InvalidOperand.
C16_Witness ==
    /\ PrevAtInstruction
    /\ PrevOpcodeCell = 2005
    /\ InBounds(prev.program, UsizeAdd(prev.pc, 2))
    /\ result = "InvalidOperand"
    /\ MachineUnchanged

(* ---------------------------------------------------------------------- *)
(* C17  InvalidOpcode                                                      *)
(* ---------------------------------------------------------------------- *)
\* The opcodes of the table.
KnownOpcodes == (1..8) \cup {99}

\* C17: a step whose opcode cell is negative returns InvalidOpcode having
\* read no cell but the opcode cell; a step whose opcode cell is
\* non-negative with low two digits outside 01..08, 99 (00 included)
\* returns InvalidOpcode; in both cases cells, pc and state are unchanged.
C17_InvalidOpcode ==
    (Stepped /\ prev.state = "Running" /\ InBounds(prev.program, prev.pc)) =>
        /\ PrevOpcodeCell < 0 =>
              /\ result = "InvalidOpcode"
              /\ PrevAccesses = <<prev.pc>>
              /\ MachineUnchanged
        /\ (PrevOpcodeCell >= 0 /\ PrevOpcodeCell % 100 \notin KnownOpcodes) =>
              /\ result = "InvalidOpcode"
              /\ MachineUnchanged
              /\ ConsoleUnchanged

\* A negative opcode cell, with cells after it, was refused.
C17_Witness ==
    /\ Stepped
    /\ InBounds(prev.program, prev.pc)
    /\ PrevOpcodeCell < 0
    /\ Len(prev.program) > prev.pc.n + 3
    /\ result = "InvalidOpcode"
    /\ PrevAccesses = <<prev.pc>>

(* ---------------------------------------------------------------------- *)
(* C18  OutOfBounds from the fetch stage                                   *)
(* ---------------------------------------------------------------------- *)
\* The operand cells each opcode reads according to the opcode table.
TableCells(opcode) ==
    IF opcode \in {1, 2, 7, 8} THEN {1, 2, 3}
    ELSE IF opcode \in {5, 6} THEN {1, 2}
    ELSE IF opcode \in {3, 4} THEN {1}
    ELSE {}

\* The last step's fetch returned OutOfBounds.
PrevFetchOutOfBounds == ~PrevFetch.ok /\ PrevFetch.kind = "OutOfBounds"

\* C18 as stated: the fetch of a step returns OutOfBounds if and only if
\* pc >= length or one of the operand cells the table lists for the opcode
\* (pc+1..pc+3 for ADD, MUL, LT, EQ; pc+1..pc+2 for JNZ, JZ; pc+1 for
\* INPUT and OUTPUT; none for HALT) lies outside the array.
C18_AsStated ==
    (Stepped /\ prev.state = "Running") =>
        \/ /\ ~InBounds(prev.program, prev.pc)
           /\ PrevFetchOutOfBounds
        \/ /\ InBounds(prev.program, prev.pc)
           /\ (PrevOpcodeCell < 0 \/ PrevOpcodeCell >= 100000) => ~PrevFetchOutOfBounds
           /\ (PrevOpcodeCell >= 0 /\ PrevOpcodeCell < 100000) =>
                 (PrevFetchOutOfBounds <=>
                     \E k \in TableCells(PrevOpcodeCell % 100) :
                         ~InBounds(prev.program, UsizeAdd(prev.pc, k)))

(* ---------------------------------------------------------------------- *)
(* C19  InvalidInput                                                       *)
(* ---------------------------------------------------------------------- *)
\* The last step decoded INPUT with its destination inside the array.
PrevInputInBounds ==
    /\ Stepped
    /\ prev.state = "Running"
    /\ PrevFetch.ok
    /\ PrevFetch.val.name = "Input"
    /\ InBounds(prev.program, PrevFetch.val.dst)

\* C19: an INPUT step whose destination is inside the array and to which
\* the host gives no parseable integer (the read fails, the input is
\* exhausted, or the line is not an integer) returns InvalidInput; every
\* cell, the destination included, keeps its value, pc is not advanced and
\* the state stays Running.  With a parseable integer it does not return
\* InvalidInput.
C19_InvalidInput ==
    PrevInputInBounds =>
        /\ ~PrevLineParses =>
              /\ result = "InvalidInput"
              /\ program = prev.program
              /\ program[PrevFetch.val.dst.n + 1] = prev.program[PrevFetch.val.dst.n + 1]
              /\ pc = prev.pc
              /\ state = "Running"
        /\ PrevLineParses => result # "InvalidInput"

\* INPUT on exhausted input returned InvalidInput.
C19_Witness ==
    /\ PrevInputInBounds
    /\ prev.stdin = <<>>
    /\ result = "InvalidInput"
    /\ MachineUnchanged

(* ---------------------------------------------------------------------- *)
(* C20  Order of host input and output                                     *)
(* ---------------------------------------------------------------------- *)
RECURSIVE IntegersOf(_)
\* The integers among the lines of a script, in order.
IntegersOf(lines) ==
    IF lines = <<>> THEN <<>>
    ELSE LET v == ParseI32(Trim(Head(lines).text))
         IN  IF ~Head(lines).err /\ v.ok
             THEN <<v.val>> \o IntegersOf(Tail(lines))
             ELSE IntegersOf(Tail(lines))

\* The last step succeeded on the opcode given.
PrevSucceededOn(opcode) ==
    /\ PrevAtInstruction
    /\ result = "Running"
    /\ PrevOpcodeCell % 100 = opcode

\* C20: at every point of a run the input still waiting is a tail of the
\* script, and the integers stored by the successful INPUT steps so far,
\* in execution order, are the integers of the part of the script taken
\* off: the k-th successful INPUT received the k-th integer of the script
\* and took exactly one; a step
\* that is not an INPUT takes nothing from the input; a successful OUTPUT
\* step appends the resolved value of its source to the output sequence,
\* and no other step adds an integer to it.
C20_HostOrder ==
    /\ Len(stdin) <= Len(hostInput)
    /\ stdin = SubSeq(hostInput, Len(hostInput) - Len(stdin) + 1, Len(hostInput))
    /\ received = IntegersOf(SubSeq(hostInput, 1, Len(hostInput) - Len(stdin)))
    /\ Stepped =>
        /\ PrevSucceededOn(3) =>
              /\ prev.stdin # <<>>
              /\ stdin = Tail(prev.stdin)
              /\ received # <<>>
              /\ <<received[Len(received)]>> = IntegersOf(<<Head(prev.stdin)>>)
        /\ ~(PrevAtInstruction /\ PrevOpcodeCell % 100 = 3) => stdin = prev.stdin
        /\ PrevSucceededOn(4) =>
              /\ PrevModeDigit(1) \in {0, 1}
              /\ PrevModeDigit(1) = 0 => InBounds(prev.program, AsUsize(PrevRaw(1)))
              /\ stdout = Append(prev.stdout, Printed(PrevSource(1)))
        /\ ~PrevSucceededOn(4) => OutputValues(stdout) = OutputValues(prev.stdout)

\* Two INPUTs and two OUTPUTs, interleaved: the first INPUT got the first
\* integer, the second the second, and each was printed in turn.
C20_Witness ==
    /\ hostInput = <<Line8, LineNeg>>
    /\ received = <<8, -1>>
    /\ OutputValues(stdout) = <<8, -1>>
    /\ PrevSucceededOn(4)

(* ---------------------------------------------------------------------- *)
(* More vocabulary: what the last step had in front of it                  *)
(* ---------------------------------------------------------------------- *)
\* v is an index into the cells as they were before the last step.
PrevValidIndex(v) == v >= 0 /\ v < Len(prev.program)

\* The operand cells pc+k, k in ks, were inside the array.
PrevCellsInside(ks) == \A k \in ks : prev.pc.n + k < Len(prev.program)

\* The source operands in the slots given resolve: mode digit 0 or 1, and
\* in position mode an index inside the array.
PrevSourcesResolve(slots) ==
    \A i \in slots :
        /\ PrevModeDigit(i) \in {0, 1}
        /\ PrevModeDigit(i) = 0 => PrevValidIndex(PrevRaw(i))

\* The last step was an ADD, MUL, LT or EQ with nothing in the way of its
\* arithmetic: operand cells inside the array, sources that resolve, a
\* destination inside the array.
PrevArithReady ==
    /\ PrevAtInstruction
    /\ PrevOpcodeCell % 100 \in {1, 2, 7, 8}
    /\ PrevCellsInside({1, 2, 3})
    /\ PrevSourcesResolve({1, 2})
    /\ PrevValidIndex(PrevRaw(3))

\* The last step was a JNZ or JZ whose two operands resolve.
PrevJumpReady ==
    /\ PrevAtInstruction
    /\ PrevOpcodeCell % 100 \in {5, 6}
    /\ PrevCellsInside({1, 2})
    /\ PrevSourcesResolve({1, 2})

(* ---------------------------------------------------------------------- *)
(* C23  Frame of a step                                                    *)
(* ---------------------------------------------------------------------- *)
\* The cells the last step changed.
ChangedCells == {i \in 1..Len(prev.program) : program[i] # prev.program[i]}

\* C23: no step changes the number of cells; a successful ADD, MUL, LT or
\* EQ step changes no cell but the one its third operand names, a
\* successful INPUT step no cell but its destination; a successful OUTPUT,
\* JNZ, JZ or HALT step, and a step that returns a fault, change no cell.
C23_Frame ==
    /\ Len(program) = Len(prev.program)
    /\ Len(program) = Len(loaded)
    /\ Stepped =>
        /\ Cardinality(ChangedCells) <= 1
        /\ ChangedCells # {} =>
              /\ result = "Running"
              /\ PrevAtInstruction
              /\ PrevOpcodeCell % 100 \in {1, 2, 3, 7, 8}
              /\ PrevOpcodeCell % 100 # 3 =>
                    PrevCellsInside({3}) /\ ChangedCells = {PrevRaw(3) + 1}
              /\ PrevOpcodeCell % 100 = 3 =>
                    PrevFetch.ok /\ ChangedCells = {PrevFetch.val.dst.n + 1}

\* An ADD changed its destination cell and nothing else.
C23_Witness ==
    /\ PrevSucceededOn(1)
    /\ Len(program) >= 5
    /\ ChangedCells = {PrevRaw(3) + 1}

(* ---------------------------------------------------------------------- *)
(* C24  Jump targets outside the array                                     *)
(* ---------------------------------------------------------------------- *)
\* C24: a JNZ/JZ whose predicate holds and whose resolved target is
\* negative or >= length does not fault: the step returns Running with the
\* cells as they were and pc at the target (for a negative target, at the
\* index the cast gives, 2^64 + target); and a step taken by a machine
\* whose last step returned Running with pc outside the array returns
\* OutOfBounds from the opcode fetch, having read no cell, and changes
\* nothing.
C24_BadJumpTarget ==
    /\ (PrevJumpReady /\ PrevJumpTaken /\ ~PrevValidIndex(PrevSource(2))) =>
        /\ result = "Running"
        /\ program = prev.program
        /\ state = "Running"
        /\ pc.n = PrevSource(2)
        /\ pc.wrapped <=> PrevSource(2) < 0
    /\ (Stepped /\ prev.result = "Running"
            /\ (prev.pc.wrapped \/ prev.pc.n >= Len(prev.program))) =>
        /\ result = "OutOfBounds"
        /\ PrevFetchOutOfBounds
        /\ PrevAccesses = <<prev.pc>>
        /\ MachineUnchanged
        /\ ConsoleUnchanged

\* A machine that had jumped to a negative target was stepped and faulted
\* at the fetch.
C24_Witness ==
    /\ Stepped
    /\ prev.result = "Running"
    /\ prev.pc.wrapped
    /\ prev.pc.n < 0
    /\ result = "OutOfBounds"
    /\ MachineUnchanged

(* ---------------------------------------------------------------------- *)
(* C26  Arithmetic overflow                                                *)
(* ---------------------------------------------------------------------- *)
\* The mathematical result of the last ADD or MUL lies outside i32.
PrevOverflows ==
    IF PrevOpcodeCell % 100 = 1
    THEN AddOverflows(PrevSource(1), PrevSource(2))
    ELSE MulOverflows(PrevSource(1), PrevSource(2))

\* C26 as stated: an ADD or MUL step whose mathematical result lies outside
\* the signed 32-bit range returns normally (Running) and stores the result
\* wrapped modulo 2^32; the machine is never aborted.
C26_AsStated ==
    /\ result # "Panic"
    /\ (PrevArithReady /\ PrevOpcodeCell % 100 \in {1, 2} /\ PrevOverflows) =>
        /\ result = "Running"
        /\ program[PrevRaw(3) + 1] =
              Apply(PrevOpcodeCell % 100, PrevSource(1), PrevSource(2))
        /\ program[PrevRaw(3) + 1] >= MinI32
        /\ program[PrevRaw(3) + 1] <= MaxI32

(* ---------------------------------------------------------------------- *)
(* C27  Negative positions                                                 *)
(* ---------------------------------------------------------------------- *)
\* The last step's instruction was decodable (operand cells inside the
\* array, source mode digits 0 or 1) and one of its position-mode sources
\* or its destination had a negative raw value.
PrevNegativePosition ==
    /\ PrevAtInstruction
    /\ PrevOpcodeCell % 100 \in {1, 2, 4, 5, 6, 7, 8}
    /\ PrevCellsInside(CellsRead(PrevOpcodeCell % 100))
    /\ \A i \in SourceSlots(PrevOpcodeCell % 100) : PrevModeDigit(i) \in {0, 1}
    /\ \/ \E i \in SourceSlots(PrevOpcodeCell % 100) :
              PrevModeDigit(i) = 0 /\ PrevRaw(i) < 0
       \/ PrevOpcodeCell % 100 \in {1, 2, 7, 8} /\ PrevRaw(3) < 0

\* C27: a position-mode source operand or a destination whose raw value is
\* negative is decoded without a fault (the fetch succeeds), and the step
\* returns OutOfBounds from the execute stage, not InvalidOperand, and
\* changes neither cells, pc, state nor console; the same holds for the
\* destination INPUT has decoded.
C27_NegativePosition ==
    /\ PrevNegativePosition =>
        /\ PrevFetch.ok
        /\ result = "OutOfBounds"
        /\ MachineUnchanged
        /\ ConsoleUnchanged
    /\ (Stepped /\ prev.state = "Running" /\ PrevFetch.ok
            /\ PrevFetch.val.name = "Input" /\ PrevFetch.val.dst.wrapped) =>
        /\ result = "OutOfBounds"
        /\ MachineUnchanged
        /\ ConsoleUnchanged

\* An ADD on immediate sources with destination -1 was decoded and then
\* refused.
C27_Witness ==
    /\ PrevNegativePosition
    /\ PrevOpcodeCell = 1101
    /\ PrevRaw(3) < 0
    /\ PrevFetch.ok
    /\ result = "OutOfBounds"

(* ---------------------------------------------------------------------- *)
(* C29  INPUT with its destination outside the array                       *)
(* ---------------------------------------------------------------------- *)
\* The last step decoded INPUT with a destination outside the array.
PrevInputOutside ==
    /\ Stepped
    /\ prev.state = "Running"
    /\ PrevFetch.ok
    /\ PrevFetch.val.name = "Input"
    /\ ~InBounds(prev.program, PrevFetch.val.dst)

\* C29: an INPUT step whose destination is outside the array returns
\* OutOfBounds without asking the host: no prompt is printed and the input
\* still waiting is what it was, so the integers a later INPUT receives
\* are not shifted; cells, pc and state are unchanged.  An INPUT step that
\* returns OutOfBounds from its fetch leaves the console alone as well.
C29_InputOutside ==
    /\ PrevInputOutside =>
        /\ result = "OutOfBounds"
        /\ stdin = prev.stdin
        /\ stdout = prev.stdout
        /\ MachineUnchanged
        /\ received = IntegersOf(SubSeq(hostInput, 1, Len(hostInput) - Len(stdin)))
    /\ (PrevAtInstruction /\ PrevOpcodeCell % 100 = 3 /\ result = "OutOfBounds") =>
        ConsoleUnchanged

\* INPUT with destination outside the array, an integer waiting on the
\* input: refused, and the integer is still waiting.
C29_Witness ==
    /\ PrevInputOutside
    /\ prev.stdin # <<>>
    /\ Head(prev.stdin) = Line8
    /\ result = "OutOfBounds"
    /\ stdin = prev.stdin

(* ---------------------------------------------------------------------- *)
(* Vocabulary for the day-2 machine's last step                            *)
(* ---------------------------------------------------------------------- *)
\* The cells the day-2 machine was loaded with.
Day2Loaded == d2.trace[1].program

\* The cell at pc + k before the last day-2 step.
Day2PrevCell(k) == d2.prev.program[d2.prev.pc + k + 1]

\* The index a cell value names (`as usize`), for values below 2^31.
Day2Index(c) == c.hi * Half + c.lo

\* The last day-2 step was an ADD or MUL that succeeded.
Day2PrevArithSucceeded ==
    /\ d2.present
    /\ calls2 > 0
    /\ d2.result = "Running"

\* What the last day-2 ADD/MUL read through its k-th operand.
Day2PrevSource(k) == d2.prev.program[Day2Index(Day2PrevCell(k)) + 1]

\* The sum or product, reduced to u32, that the instruction in front of
\* the last day-2 step asks for.
Day2Expected ==
    IF Day2PrevCell(0) = U32(1)
    THEN U32WrappingAdd(Day2PrevSource(1), Day2PrevSource(2))
    ELSE U32WrappingMul(Day2PrevSource(1), Day2PrevSource(2))

\* The cells the last day-2 step changed.
Day2ChangedCells ==
    {i \in 1..Len(d2.prev.program) : d2.program[i] # d2.prev.program[i]}

(* ---------------------------------------------------------------------- *)
(* C22  Self-modifying programs                                            *)
(* ---------------------------------------------------------------------- *)
\* The example of the day-2 test example_5.
Example5 == <<1, 1, 1, 4, 99, 5, 6, 0, 99>>

\* One of the cells the last step's instruction occupies (opcode cell and
\* the operand cells of its opcode) had been rewritten since the load.
PrevInstructionRewritten ==
    \E k \in {0} \cup CellsRead(PrevOpcodeCell % 100) :
        /\ prev.pc.n + k < Len(prev.program)
        /\ prev.program[prev.pc.n + k + 1] # loaded[prev.pc.n + k + 1]

\* One of the four cells of the instruction the last day-2 step executed
\* had been rewritten since the load.
Day2InstructionRewritten ==
    \E k \in 0..3 : Day2PrevCell(k) # Day2Loaded[d2.prev.pc + k + 1]

\* C22: instructions are decoded from the cells as they are when pc reaches
\* them, not as they were loaded.  On 1,1,1,4,99,5,6,0,99 the ADD at 0
\* replaces the 99 in cell 4 by 2, the machine then executes a MUL at pc 4
\* and halts at cell 8 with cells 30,1,1,4,2,5,6,0,99.  In general a
\* successful ADD, MUL, LT or EQ step on an instruction with a rewritten
\* cell stores what the current opcode cell and current operands give.
\* Stated of the day-5 machine and of the day-2 machine.
C22_SelfModifying ==
    /\ loaded = Example5 =>
        /\ result \in {"None", "Running", "Halted"}
        /\ pc \in {Index(0), Index(4), Index(8)}
        /\ pc = Index(0) => program = loaded
        /\ pc = Index(4) => program = <<1, 1, 1, 4, 2, 5, 6, 0, 99>>
        /\ pc = Index(8) => program = <<30, 1, 1, 4, 2, 5, 6, 0, 99>>
        /\ state = "Halted" <=> (pc = Index(8) /\ result = "Halted")
        /\ (Stepped /\ prev.pc = Index(4)) =>
              /\ PrevFetch.ok
              /\ PrevFetch.val.name = IF result = "Halted" THEN "Halt" ELSE "Mul"
              /\ loaded[5] = 99
    /\ (PrevArithReady /\ PrevOpcodeCell < 100000 /\ PrevInstructionRewritten
            /\ result = "Running") =>
        program[PrevRaw(3) + 1] =
            Apply(PrevOpcodeCell % 100, PrevSource(1), PrevSource(2))
    /\ (d2.present /\ Day2Loaded = U32Cells(Example5)) =>
        /\ d2.result \in {"None", "Running", "Halted"}
        /\ d2.pc \in {0, 4, 8}
        /\ d2.pc = 0 => d2.program = Day2Loaded
        /\ d2.pc = 4 => d2.program = U32Cells(<<1, 1, 1, 4, 2, 5, 6, 0, 99>>)
        /\ d2.pc = 8 => d2.program = U32Cells(<<30, 1, 1, 4, 2, 5, 6, 0, 99>>)
        /\ d2.run = "Ok" <=> (d2.pc = 8 /\ d2.result = "Halted")
        /\ (calls2 > 0 /\ d2.prev.pc = 4) =>
              /\ Day2FetchOp(d2.prev).ok
              /\ Day2FetchOp(d2.prev).val.name =
                    IF d2.result = "Halted" THEN "Halt" ELSE "Mul"
    /\ (Day2PrevArithSucceeded /\ Day2InstructionRewritten) =>
        d2.program[Day2Index(Day2PrevCell(3)) + 1] = Day2Expected

\* The MUL the program wrote for itself has run.
C22_Witness ==
    /\ loaded = Example5
    /\ Stepped
    /\ prev.pc = Index(4)
    /\ PrevOpcodeCell = 2
    /\ PrevInstructionRewritten
    /\ program = <<30, 1, 1, 4, 2, 5, 6, 0, 99>>
    /\ d2.present
    /\ d2.run = "Ok"
    /\ Day2Loaded[5] = U32(99)
    /\ d2.program = U32Cells(<<30, 1, 1, 4, 2, 5, 6, 0, 99>>)

(* ---------------------------------------------------------------------- *)
(* C28  Sources are read before the destination is written                 *)
(* ---------------------------------------------------------------------- *)
\* The destination of the last ADD/MUL/LT/EQ is a cell the instruction also
\* reads: a position-mode source, the opcode cell or one of its operand
\* cells.
PrevAliased ==
    \/ \E i \in {1, 2} : PrevModeDigit(i) = 0 /\ PrevRaw(i) = PrevRaw(3)
    \/ PrevRaw(3) \in {prev.pc.n + k : k \in 0..3}

\* The destination of the last day-2 ADD/MUL is a cell the instruction
\* also reads.
Day2PrevAliased ==
    \/ Day2PrevCell(3) \in {Day2PrevCell(1), Day2PrevCell(2)}
    \/ Day2Index(Day2PrevCell(3)) \in {d2.prev.pc + k : k \in 0..3}

\* C28: both sources are resolved from the cells as they were before the
\* step, and only then is the destination written: a successful ADD, MUL,
\* LT or EQ whose destination is also one of its sources, its opcode cell
\* or one of its operand cells stores the result computed from the old
\* contents.  1,0,0,0,99 ends as 2,0,0,0,99 and 2,4,4,5,99,0 ends as
\* 2,4,4,5,99,9801.  Stated of the day-5 machine and of the day-2 machine
\* (ADD and MUL).
C28_SourcesBeforeWrite ==
    /\ (PrevArithReady /\ PrevOpcodeCell < 100000 /\ PrevAliased
            /\ result = "Running") =>
        /\ program[PrevRaw(3) + 1] =
              Apply(PrevOpcodeCell % 100, PrevSource(1), PrevSource(2))
        /\ ChangedCells \subseteq {PrevRaw(3) + 1}
    /\ (loaded = <<1, 0, 0, 0, 99>> /\ state = "Halted") =>
        program = <<2, 0, 0, 0, 99>>
    /\ (loaded = <<2, 4, 4, 5, 99, 0>> /\ state = "Halted") =>
        program = <<2, 4, 4, 5, 99, 9801>>
    /\ (loaded = <<1, 0, 0, 0, 99>> /\ Stepped /\ prev.pc = Index(0)) =>
        (PrevAliased /\ result = "Running" /\ program[1] = 2)
    /\ (Day2PrevArithSucceeded /\ Day2PrevAliased) =>
        /\ d2.program[Day2Index(Day2PrevCell(3)) + 1] = Day2Expected
        /\ Day2ChangedCells \subseteq {Day2Index(Day2PrevCell(3)) + 1}
    /\ (d2.present /\ Day2Loaded = U32Cells(<<1, 0, 0, 0, 99>>) /\ d2.run = "Ok") =>
        d2.program = U32Cells(<<2, 0, 0, 0, 99>>)
    /\ (d2.present /\ Day2Loaded = U32Cells(<<2, 4, 4, 5, 99, 0>>) /\ d2.run = "Ok") =>
        d2.program = U32Cells(<<2, 4, 4, 5, 99, 9801>>)

\* 1,0,0,0,99: the ADD read cell 0 twice as 1 and then overwrote it with 2.
C28_Witness ==
    /\ loaded = <<1, 0, 0, 0, 99>>
    /\ PrevArithReady
    /\ PrevAliased
    /\ prev.program[1] = 1
    /\ program = <<2, 0, 0, 0, 99>>
    /\ Day2PrevArithSucceeded
    /\ Day2PrevAliased
    /\ d2.prev.program = U32Cells(<<1, 0, 0, 0, 99>>)
    /\ d2.program = U32Cells(<<2, 0, 0, 0, 99>>)

(* ---------------------------------------------------------------------- *)
(* C21  run()                                                              *)
(* ---------------------------------------------------------------------- *)
\* The last turn of the day-5 loop did what one step() call does.
LastTurnIsAStep ==
    \E out \in StepOutcomes(PrevCpu, PrevConsole) :
        out.res = result /\ out.cpu = Cpu /\ out.io = Console

\* The last turn of the day-2 loop did what one step() call does.
Day2LastTurnIsAStep ==
    \E out \in Day2StepOutcomes(d2.prev) : out.res = d2.result /\ out.cpu = Day2Cpu

\* Where the day-5 run() stands, against what its steps returned.
RunContract ==
    /\ run \in {"Looping", "Ok", "Panic"} \cup FaultKinds
    /\ calls = 0 <=> result = "None"
    /\ calls > 0 => LastTurnIsAStep
    /\ run = "Looping" => (result \in {"None", "Running"} /\ state = "Running")
    /\ run = "Ok" =>
        /\ result = "Halted"
        /\ state = "Halted"
        /\ InBounds(program, pc)
        /\ program[pc.n + 1] >= 0
        /\ program[pc.n + 1] % 100 = 99
    /\ run \in FaultKinds =>
        /\ result = run
        /\ ~faulted
        /\ prev.result \in {"None", "Running"}
        /\ MachineUnchanged
    /\ run = "Panic" <=> result = "Panic"

\* Where the day-2 run() stands, against what its steps returned.
Day2RunContract ==
    d2.present =>
        /\ d2.run \in {"Looping", "Ok", "Panic", "OutOfBounds", "InvalidOpcode"}
        /\ calls2 = 0 <=> d2.result = "None"
        /\ Len(d2.trace) = calls2 + 1
        /\ d2.trace[Len(d2.trace)] = Day2Cpu
        /\ calls2 > 0 =>
            /\ Day2LastTurnIsAStep
            /\ d2.prev = d2.trace[calls2]
        /\ \A k \in 1..(Len(d2.trace) - 1) : d2.trace[k].state = "Running"
        /\ d2.run = "Looping" => (d2.result \in {"None", "Running"} /\ d2.state = "Running")
        /\ d2.run = "Ok" =>
            /\ d2.result = "Halted"
            /\ d2.state = "Halted"
            /\ d2.pc < Len(d2.program)
            /\ d2.program[d2.pc + 1] = U32(99)
        /\ d2.run \in FaultKinds => (d2.result = d2.run /\ Day2Cpu = d2.prev)
        /\ d2.run = "Panic" <=> d2.result = "Panic"

\* C21: run() calls step() until a step returns Halted or a fault.  It has
\* returned Ok only with the machine Halted and pc at a cell whose opcode
\* digits are 99; it has returned a fault only when the last step returned
\* that fault, no earlier step returned one, and that step changed
\* nothing; every turn of the loop changes cells, pc and console as one
\* step() call does; and once run() has returned the machine is not
\* stepped again.  The same holds of the day-2 run().
C21_Run ==
    /\ [](RunContract /\ Day2RunContract)
    /\ [][(run \in {"Ok", "Panic"} \cup FaultKinds) =>
            UNCHANGED <<program, state, pc, stdin, stdout, calls>>]_vars
    /\ [][(d2.present /\ d2.run # "Looping") => UNCHANGED <<d2, calls2>>]_vars

\* Both run() calls went round the loop at least twice and returned the
\* first fault.
C21_Witness ==
    /\ run = "OutOfBounds"
    /\ calls >= 2
    /\ result = "OutOfBounds"
    /\ prev.result = "Running"
    /\ d2.present
    /\ d2.run = "OutOfBounds"
    /\ calls2 >= 2

(* ---------------------------------------------------------------------- *)
(* C30  Termination without jumps                                          *)
(* ---------------------------------------------------------------------- *)
\* The last day-5 step was a JNZ/JZ whose predicate held.
PrevTookJump == PrevJumpReady /\ PrevJumpTaken

\* What bounds a run: pc grows with every successful step that is neither
\* a halt nor a taken jump, and a pc outside the array ends the run.
C30_Measure ==
    /\ (Stepped /\ result = "Running" /\ ~PrevTookJump) =>
        /\ ~pc.wrapped
        /\ pc.n >= prev.pc.n + 2
        /\ pc.n <= prev.pc.n + 4
    /\ (Stepped /\ prev.state = "Running" /\ ~InBounds(prev.program, prev.pc)) =>
        result = "OutOfBounds"
    /\ PrevTookJump /\ result = "Running" => jumped
    /\ ~jumped =>
        /\ calls <= Len(program) + 1
        /\ run = "Looping" => (~pc.wrapped /\ pc.n >= 2 * calls)
    /\ d2.present =>
        /\ d2.result = "Running" => d2.pc = d2.prev.pc + 4
        /\ d2.run = "Looping" => d2.pc = 4 * calls2
        /\ (calls2 > 0 /\ d2.prev.pc >= Len(d2.prev.program)) =>
              d2.result = "OutOfBounds"
        /\ calls2 <= Len(d2.program) + 1

\* The day-2 run() has come to an end, and the day-5 run() has come to an
\* end or has taken a jump.  Once true this stays true.
RunsOver == (run # "Looping" \/ jumped) /\ (d2.present => d2.run # "Looping")

\* C30: the day-2 run() comes to an end on every program, and the day-5
\* run() comes to an end on every execution in which no jump is taken (it
\* returns Ok or a fault, or the process is aborted by an overflow panic).
\* Each successful step that is neither a halt nor a taken jump moves pc
\* forward, by 4 on day 2 and by 2 to 4 on day 5; a step with pc >= length
\* returns OutOfBounds; and a run() without a taken jump makes at most
\* length + 1 step() calls.
C30_Termination ==
    /\ []C30_Measure
    /\ <>RunsOver

\* A run() without a taken jump stepped across the whole array and was
\* stopped by the fetch at pc = length; the day-2 run() on the same cells
\* likewise.
C30_Witness ==
    /\ ~jumped
    /\ run = "OutOfBounds"
    /\ calls >= 2
    /\ prev.pc.n = Len(program)
    /\ d2.present
    /\ d2.run = "OutOfBounds"
    /\ d2.pc = Len(d2.program)

(* ---------------------------------------------------------------------- *)
(* C25  The day-5 machine on day-2 programs                                *)
(* ---------------------------------------------------------------------- *)
\* The day-5 machine's cells, pc and state are those of the day-2 snapshot.
SameAsDay2(snap) ==
    /\ state = snap.state
    /\ ~pc.wrapped
    /\ pc.n = snap.pc
    /\ Len(program) = Len(snap.program)
    /\ \A i \in 1..Len(program) : program[i] >= 0 /\ U32(program[i]) = snap.program[i]

\* C25 as stated: when the day-2 run() has returned Ok on cells in
\* 0..2^31-1 without a u32 overflow, the day-5 run() on the same cells is,
\* after each of its steps, where the day-2 machine was after as many
\* steps, returns Ok after the same number of steps, and neither reads
\* input nor prints.
C25_AsStated ==
    (d2.present /\ d2.run = "Ok" /\ ~d2.overflowed) =>
        /\ calls <= calls2
        /\ run \in {"Looping", "Ok"}
        /\ run = "Ok" <=> calls = calls2
        /\ SameAsDay2(d2.trace[calls + 1])
        /\ stdin = hostInput
        /\ stdout = <<>>

(* ---------------------------------------------------------------------- *)
(* C31  The search driver of day 2, part 2                                 *)
(* ---------------------------------------------------------------------- *)
\* part2 has come to an end: it returned after a match, left with exit
\* status 2, or the process was aborted by a panic.
SearchEnded == search.status \in {"Found", "NotFound", "Panic"}

\* The pair after (noun, verb) in noun-major ascending order.
PairAfter(noun, verb) == IF verb < 99 THEN <<noun, verb + 1>> ELSE <<noun + 1, 0>>

\* Where the search stands, against the pairs it has tried.
SearchContract ==
    /\ search.noun \in 0..99
    /\ search.verb \in 0..99
    /\ search.status = "Next" => search.tried = 100 * search.noun + search.verb
    /\ search.status \in {"Running", "Found", "NotFound"} =>
        /\ search.tried = 100 * search.noun + search.verb + 1
        /\ d2.present
        /\ Len(search.input) >= 3
        /\ Len(Day2Loaded) = Len(search.input)
        /\ \A i \in 1..Len(search.input) :
              Day2Loaded[i] = IF i = 2 THEN U32(search.noun)
                              ELSE IF i = 3 THEN U32(search.verb)
                              ELSE search.input[i]
        /\ d2.trace[1].pc = 0
        /\ d2.trace[1].state = "Running"
    /\ search.skipped <= search.tried
    /\ search.status \in {"Next", "Running", "NotFound"} => search.matches = {}
    /\ search.status = "Found" =>
        /\ search.matches = {<<search.noun, search.verb>>}
        /\ d2.run = "Ok"
        /\ d2.program[1] = U32(19690720)
        /\ search.answer = 100 * search.noun + search.verb
        /\ search.exit = 0
    /\ search.status = "NotFound" =>
        /\ search.tried = 10000
        /\ d2.run \in {"Ok"} \cup FaultKinds
    /\ search.exit = 2 <=> search.status = "NotFound"
    /\ search.status = "Panic" =>
        /\ search.exit = 101
        /\ Len(search.input) < 3 \/ d2.run = "Panic"
    /\ search.status \in {"Next", "Running"} => search.exit = -1
    /\ (search.input = U32Cells(<<2, 0, 0, 0, 99, 19690720>>) /\ search.status = "Found") =>
        search.answer = 105
    /\ (search.input = U32Cells(<<1, 0, 0, 0, 99, 19690719>>) /\ search.status = "Found") =>
        search.answer = 5
    /\ search.input \in {U32Cells(<<1, 0, 0, 0, 99>>), U32Cells(<<1, 0, 0, 4, 99>>)} =>
        search.status # "Found"

\* What part2 does with a run that has come back.
SearchMoves ==
    /\ search'.input = search.input
    /\ (search.status = "Running" /\ search' # search) =>
        /\ d2.run # "Looping"
        /\ d2.run \in FaultKinds =>
            /\ search'.status \in {"Next", "NotFound"}
            /\ search'.skipped = search.skipped + 1
            /\ search'.warning = [kind |-> d2.run, pc |-> d2.pc,
                                  noun |-> search.noun, verb |-> search.verb]
        /\ (d2.run = "Ok" /\ d2.program[1] # U32(19690720)) =>
            /\ search'.status \in {"Next", "NotFound"}
            /\ search'.skipped = search.skipped
        /\ search'.status = "Next" =>
            <<search'.noun, search'.verb>> = PairAfter(search.noun, search.verb)
        /\ search'.status = "NotFound" => (search.noun = 99 /\ search.verb = 99)
        /\ search'.status = "Found" <=> (d2.run = "Ok" /\ d2.program[1] = U32(19690720))
    /\ SearchEnded => UNCHANGED <<search, d2, calls2>>

\* C31: part2 tries the pairs (noun, verb), noun and verb in 0..99, in
\* noun-major ascending order, each on a machine newly built from the
\* loaded program with cells 1 and 2 replaced by noun and verb, whatever
\* earlier runs wrote or however they ended; a run that returns a fault is
\* logged (fault kind, pc, pair) and the next pair is tried; the first pair
\* whose run ends Ok with the target in cell 0 ends the search, which
\* reports 100 * noun + verb; when the last pair has been tried without a
\* match the process ends with exit status 2.  The search always comes to
\* an end.  (A panic, from set_inputs on a program of fewer than three
\* cells or from a u32 overflow in a checked build, aborts the process.)
C31_SearchDriver ==
    /\ []SearchContract
    /\ [][SearchMoves]_vars
    /\ <>SearchEnded

\* After runs that were skipped for their faults, the search stopped at
\* noun 1, verb 5 and reported 105.
C31_Witness ==
    /\ search.status = "Found"
    /\ search.answer = 105
    /\ search.tried = 106
    /\ search.skipped >= 94
    /\ search.warning.kind = "OutOfBounds"

====
